---------------------------- MODULE Spec2Model ----------------------------
(***************************************************************************)
(* A model of evcpp's promise core (promise.h), as a state machine over a  *)
(* bounded heap of PromiseState objects and one event loop task queue.     *)
(*                                                                         *)
(* Every handler is one action.  A handler's nested calls (Resolve ->      *)
(* TryInvokeCallback -> RunInExecutor -> continuation -> PropagateResult   *)
(* -> Resolve ...) are computed by recursive operators over a heap record  *)
(* built from the variables, and the action commits the resulting heap.    *)
(***************************************************************************)
EXTENDS Integers, Sequences, FiniteSets, TLC

\* ------------------------------------------------------------------ bounds

\* Number of PromiseState objects that may ever be allocated.
MaxStates == 3

States == 1..MaxStates

\* Number of promises user code constructs itself (the others are made by
\* Then and by Promise-returning continuations).
MaxRoots == 1

\* Number of downstream promises in the scenarios about one promise and its
\* continuation (Spec).
MaxDown == 1

\* Number of input promises handed to MkAllPromise, MkAnyPromise and
\* MkRacePromise (SpecComb).
MaxInputs == 2

\* The null pointer (next_ == nullptr, an empty prev_).
NULL == 0

\* Payloads carried by Result<T,E>: values of T and errors of E.
Values == {"v1", "v2"}
Errors == {"e1", "e2"}

\* Executor*: nullptr, or the one event loop.
NoExec == "nullexec"
Loop == "loop"
Executors == {NoExec, Loop}

\* ------------------------------------------------------------------ Result

\* Result<T,E>: std::variant<std::monostate, T, E>.
Value(v) == [tag |-> "Value", x |-> v]
Error(e) == [tag |-> "Error", x |-> e]
Empty == [tag |-> "Empty", x |-> "-"]

\* std::optional<Result<T,E>> without a value.
NoResult == [tag |-> "None", x |-> "-"]

IsError(r) == r.tag = "Error"
IsValue(r) == r.tag = "Value"

Results == {Value(v) : v \in Values} \cup {Error(e) : e \in Errors}

\* ------------------------------------------------------------------ statuses

PromiseStatus ==
    {"Init", "PreResolved", "Resolved", "PreRejected", "Rejected", "Cancelled"}

Cancellable == {"Init", "PreRejected", "PreResolved"}
Terminal == {"Resolved", "Rejected", "Cancelled"}

\* ------------------------------------------------------------------ callbacks

\* std::optional<Callback> without a value.
NoCallback == [kind |-> "none", f |-> "-", self |-> NULL, user |-> FALSE, inner |-> NULL]

\* The user functions a Result-returning continuation may be: "id" returns the
\* Result it was given, "flip" turns a value into an error and back.
ResultFns == {"id", "flip"}

\* The user functions a Promise-returning continuation may be: the inner
\* promise is returned still pending, or settled (as the argument was) before
\* it is returned.
PromiseFns == {"pend", "settle"}

Flip(x) ==
    CASE x = "v1" -> "e1"
      [] x = "v2" -> "e2"
      [] x = "e1" -> "v1"
      [] x = "e2" -> "v2"
      [] OTHER -> x

ApplyFn(f, r) ==
    IF f = "id" THEN r
    ELSE IF IsValue(r) THEN Error(Flip(r.x))
    ELSE IF IsError(r) THEN Value(Flip(r.x))
    ELSE r


\* ------------------------------------------------------------------ event loop

\* enum class Priority
kLow == 0
kMedium == 1
kHigh == 2
Priority == {kLow, kMedium, kHigh}

\* Number of tasks enqueued on the loop in the scenarios about its queues
\* (SpecLoop), the tasks that tasks post counted.
MaxTasks == 3

\* Number of ticks of the loop's system timer (SpecLoop).
MaxTicks == 2

\* What a task does when it runs: nothing, or Post one more task with some
\* priority.
TaskBodies == {<<>>} \cup {<<p>> : p \in Priority}

\* No task: no Dispatch is under way.
NoTask == [id |-> 0, prio |-> kLow, at |-> 0, by |-> "-", body |-> <<>>]

\* What a data race of two push_back on one vector may do: both elements
\* are kept, one of them is lost, or the process aborts.
RaceOutcomes == {"kept", "lostPost", "lostDispatch", "crash"}

\* EventLoopLibevImpl as constructed.  cbs: cbs_; batch: the local vector
\* SysTimerCallback swapped out and RunTasks is going through; pc: 0 outside
\* SysTimerCallback, i + 1 after the swap of cbs_[i]; iter:
\* sys_timer_iterations_; n: tasks enqueued so far, owed: tasks the queued
\* tasks will post; ran: the tasks run, in order; disp: the task of the
\* Dispatch that holds mu_; dropped: a race has lost that task; raced: a Post
\* has run into a Dispatch on the same vector.
NewLoop ==
    [cbs |-> [i \in 0..2 |-> <<>>], batch |-> <<>>, pc |-> 0, iter |-> 0,
     n |-> 0, owed |-> 0, ran |-> <<>>, disp |-> NoTask, dropped |-> FALSE,
     raced |-> FALSE, crashed |-> FALSE]

\* A push_back at the front of the vector.
PushFront(l, task) ==
    [l EXCEPT !.cbs[task.prio] = <<task>> \o @]

\* cbs_[static_cast<int>(prio)].push_back(std::move(cb))
PushBack(l, task) ==
    [l EXCEPT !.cbs[task.prio] = Append(@, task)]

\* The task a call enqueues: tasks are numbered as they are enqueued.
MkTask(l, p, by, body) ==
    [id |-> l.n + 1, prio |-> p, at |-> l.iter, by |-> by, body |-> body]

\* The loop thread's Post races with the Dispatch of another thread that is
\* inside its push_back on the same vector.
Races(l, p) == l.disp # NoTask /\ l.disp.prio = p

\* The outcomes a Post has to be run under.
RaceChoices(l, p) == IF Races(l, p) THEN RaceOutcomes ELSE {"kept"}

\* EventLoopLibevImpl::Post, called on the loop's thread: no lock is taken.
LoopPost(l, p, by, body, out) ==
    LET task == MkTask(l, p, by, body)
        l1 == [l EXCEPT !.n = @ + 1, !.raced = @ \/ Races(l, p)]
    IN IF ~Races(l, p) \/ out = "kept" THEN PushBack(l1, task)
       ELSE IF out = "lostPost" THEN l1
       ELSE IF out = "lostDispatch"
       THEN [PushBack(l1, task) EXCEPT !.dropped = TRUE]
       ELSE [l1 EXCEPT !.crashed = TRUE]

\* InvokeVariantCallback(cb) in RunTasks: the task runs, and posts what its
\* body says.
RunLoopTask(l, task, out) ==
    LET l1 == [l EXCEPT !.ran = Append(@, [id |-> task.id, prio |-> task.prio,
                                           at |-> task.at, by |-> task.by,
                                           iter |-> l.iter])]
    IN IF task.body = <<>> THEN l1
       ELSE LoopPost([l1 EXCEPT !.owed = @ - 1], task.body[1], "task",
                     <<>>, out)

\* ------------------------------------------------------------------ state

VARIABLES
    status,     \* PromiseStateBase::status_ of each state
    storage,    \* PromiseStateInternal::storage_
    cb,         \* PromiseStateInternal::cb_
    exec,       \* PromiseStateBase::exec_
    next,       \* PromiseStateBase::next_ (raw pointer)
    prev,       \* PromiseStateBase::prev_ (shared_ptr)
    held,       \* number of Promise handles user code holds on the state
    life,       \* "free" | "reserved" | "live" | "dead" (destructor has run)
    q,          \* the loop's queue of posted tasks (cbs_[kLow])
    crashed,    \* the process has hit undefined behaviour and is gone
    outcome,    \* history: the Result each state was settled with
    nTrue,      \* history: how many Resolve/Reject/Cancel calls returned true
    direct,     \* history: the state was settled by a call of user code
    propagated, \* history: the Result PropagateResult was handed for the state
    mirror,     \* history: the inner promise PropagatePromise linked the state to
    invlog,     \* history: the user continuations invoked, in order, with their argument
    origin,     \* history: the state whose Then made the state (NULL: none)
    hist,       \* history: the values status_ has had, oldest first
    ctx,        \* the Ctx the lambdas of one MkAll/MkAny call share
    comb,       \* history: the MkAll/MkAny/MkRace call made, its inputs and output
    setlog,     \* history: the settlements of the inputs made by user code, in order
    coh,        \* PromiseStateBase::co_handle_ of each state is set
    co,         \* the coroutine frame co_handle_ refers to, and its history
    el          \* EventLoopLibevImpl: the three task vectors and the tick under way

\* The promises, their continuations and the coroutine.
pvars ==
    <<status, storage, cb, exec, next, prev, held, life, q, crashed, outcome,
      nTrue, direct, propagated, mirror, invlog, origin, hist, ctx, comb,
      setlog, coh, co>>

vars == <<pvars, el>>

NoProp == [res |-> NoResult, before |-> "-"]

\* No Ctx has been allocated.
NoCtx == [counter |-> 0, slots |-> <<>>]

\* No combinator has been called.
NoComb == [kind |-> "none", out |-> NULL, ins |-> <<>>, pre |-> <<>>]

\* The Result<void,E> that carries no error.
VoidOk == [tag |-> "Ok", x |-> "-"]

\* What a coroutine body returns with co_return: a T, an E, a Result<T,E>,
\* the Result its co_await yielded, or (Promise<void,E>) a Result<void,E>.
\* x.x is the payload of a T and of an E.
ReturnExprs ==
    {[kind |-> "T", x |-> Value("v1")], [kind |-> "E", x |-> Error("e1")],
     [kind |-> "Result", x |-> Value("v2")],
     [kind |-> "Result", x |-> Error("e2")],
     [kind |-> "Awaited", x |-> NoResult],
     [kind |-> "VoidResult", x |-> VoidOk],
     [kind |-> "VoidResult", x |-> Error("e1")]}

\* No coroutine has been called.  st: "none" | "suspended" (at its co_await)
\* | "done" (ran to its end, the frame freed itself) | "destroyed" (by
\* co_handle_.destroy()).
NoFrame ==
    [st |-> "none", ret |-> NULL, aw |-> NULL,
     body |-> [kind |-> "-", x |-> NoResult], cur |-> NoExec, res |-> Empty,
     pre |-> "-", yielded |-> NoResult, inline |-> FALSE, resumes |-> 0, late |-> FALSE,
     destroys |-> 0, byCancel |-> 0, stale |-> FALSE]

\* What undefined behaviour may do where the model meets it: abort the
\* process, or carry on with an arbitrary payload read from a bad address.
UBOutcomes == {"crash"} \cup Values

\* The heap the handlers work on: the variables, the value the innermost
\* call returned (ret) and this step's choice for undefined behaviour (ub).
Heap(ub) ==
    [status |-> status, storage |-> storage, cb |-> cb, exec |-> exec,
     next |-> next, prev |-> prev, held |-> held, life |-> life, q |-> q,
     crashed |-> crashed, outcome |-> outcome, nTrue |-> nTrue,
     direct |-> direct, propagated |-> propagated, mirror |-> mirror,
     invlog |-> invlog, origin |-> origin, hist |-> hist,
     ctx |-> ctx, comb |-> comb, setlog |-> setlog, coh |-> coh, co |-> co,
     ret |-> FALSE, ub |-> ub]

Min(a, b) == IF a < b THEN a ELSE b

RECURSIVE Resolve(_, _, _)
RECURSIVE Reject(_, _, _)
RECURSIVE Cancel(_, _)
RECURSIVE OnCancel(_, _)
RECURSIVE AddCallback(_, _, _, _)
RECURSIVE TryInvokeCallback(_, _)
RECURSIVE RunInExecutor(_, _, _)
RECURSIVE InvokeVariantCallback(_, _)
RECURSIVE AttachVoidCb(_, _, _)
RECURSIVE AttachResultCb(_, _, _)
RECURSIVE AttachPromiseCb(_, _, _)
RECURSIVE PropagateResult(_, _, _)
RECURSIVE PropagatePromise(_, _, _)
RECURSIVE Collect(_)
RECURSIVE UserVoidFn(_, _, _)
RECURSIVE AttachInputs(_, _, _, _, _, _)

\* An assignment to status_.
SetStatus(h, s, new) ==
    [h EXCEPT !.status[s] = new, !.hist[s] = Append(@, new)]

\* The process aborts.
Crash(h) == [h EXCEPT !.crashed = TRUE]

\* A user continuation is entered with argument r.
LogInvoke(h, s, r) == [h EXCEPT !.invlog = Append(@, [s |-> s, r |-> r])]

\* ------------------------------------------------------------------ PromiseState

\* A Resolve that takes any state not yet terminal, settled or not.
ResolveNoInitCheck(h, s, v) ==
    IF h.status[s] \in Terminal THEN [h EXCEPT !.ret = FALSE]
    ELSE LET h1 == SetStatus(h, s, "PreResolved")
             h2 == [h1 EXCEPT !.storage[s] = Value(v),
                              !.outcome[s] = Value(v)]
             h3 == TryInvokeCallback(h2, s)
         IN IF h3.crashed THEN h3
            ELSE [h3 EXCEPT !.ret = TRUE,
                            !.nTrue[s].res = Min(@ + 1, 2)]

Resolve(h, s, v) ==
    IF h.status[s] # "Init" THEN [h EXCEPT !.ret = FALSE]
    ELSE LET h1 == SetStatus(h, s, "PreResolved")
             h2 == [h1 EXCEPT !.storage[s] = Value(v),
                              !.outcome[s] = Value(v)]
             h3 == TryInvokeCallback(h2, s)
         IN IF h3.crashed THEN h3
            ELSE [h3 EXCEPT !.ret = TRUE,
                            !.nTrue[s].res = Min(@ + 1, 2)]

\* A Reject without the test of the status.
RejectNoInitCheck(h, s, e) ==
    LET h1 == SetStatus(h, s, "PreRejected")
        h2 == [h1 EXCEPT !.storage[s] = Error(e),
                         !.outcome[s] = Error(e)]
        h3 == TryInvokeCallback(h2, s)
    IN IF h3.crashed THEN h3
       ELSE [h3 EXCEPT !.ret = TRUE,
                       !.nTrue[s].rej = Min(@ + 1, 2)]

Reject(h, s, e) ==
    IF h.status[s] # "Init" THEN [h EXCEPT !.ret = FALSE]
    ELSE LET h1 == SetStatus(h, s, "PreRejected")
             h2 == [h1 EXCEPT !.storage[s] = Error(e),
                              !.outcome[s] = Error(e)]
             h3 == TryInvokeCallback(h2, s)
         IN IF h3.crashed THEN h3
            ELSE [h3 EXCEPT !.ret = TRUE,
                            !.nTrue[s].rej = Min(@ + 1, 2)]

\* The coroutine frame is freed: its locals (the awaiter and its handle on
\* the awaited state) and its promise_type (promise_, a handle on the return
\* promise's state) go with it.
DestroyFrame(h, st) ==
    [h EXCEPT !.co.st = st, !.co.destroys = Min(@ + 1, 2)]

\* co_handle_.destroy() in Cancel.  A frame suspended at its co_await is
\* freed.  A frame that ran to its end has freed itself (final_suspend is
\* suspend_never) and co_handle_ dangles: destroying it again is undefined.
HandleDestroy(h) ==
    LET h1 == [h EXCEPT !.co.byCancel = Min(@ + 1, 2)]
    IN IF h1.co.st = "suspended" THEN DestroyFrame(h1, "destroyed")
       ELSE LET h2 == [DestroyFrame(h1, h1.co.st) EXCEPT !.co.stale = TRUE]
            IN IF h2.ub = "crash" THEN Crash(h2) ELSE h2

\* A Cancel without the switch on the status.
CancelFromAnyStatus(h, s) ==
    LET h1 == SetStatus(h, s, "Cancelled")
        h2 == OnCancel(IF h1.coh[s] THEN HandleDestroy(h1) ELSE h1, s)
    IN IF h2.crashed \/ ~h2.ret THEN h2
       ELSE [h2 EXCEPT !.nTrue[s].can = Min(@ + 1, 2)]

Cancel(h, s) ==
    IF h.status[s] \in Cancellable
    THEN LET h1 == SetStatus(h, s, "Cancelled")
             h2 == IF ~h1.coh[s] THEN OnCancel(h1, s)
                   ELSE IF HandleDestroy(h1).crashed THEN HandleDestroy(h1)
                   ELSE OnCancel(HandleDestroy(h1), s)
         IN IF h2.crashed \/ ~h2.ret THEN h2
            ELSE [h2 EXCEPT !.nTrue[s].can = Min(@ + 1, 2)]
    ELSE [h EXCEPT !.ret = FALSE]

\* An OnCancel that also cancels the upstream state prev_ points at.
OnCancelBackward(h, s) ==
    LET h1 == [h EXCEPT !.cb[s] = NoCallback, !.storage[s] = NoResult]
        p == h1.prev[s]
        h2 == IF p # NULL /\ h1.status[p] \in Cancellable
              THEN [SetStatus(h1, p, "Cancelled")
                       EXCEPT !.cb[p] = NoCallback, !.storage[p] = NoResult]
              ELSE h1
    IN IF h2.next[s] = NULL THEN [h2 EXCEPT !.ret = TRUE]
       ELSE IF h2.life[h2.next[s]] # "live" THEN Crash(h2)
       ELSE Cancel(h2, h2.next[s])

\* An OnCancel that does not go on to next_.
OnCancelNoForward(h, s) ==
    [h EXCEPT !.cb[s] = NoCallback, !.storage[s] = NoResult, !.ret = TRUE]

\* An OnCancel that tells the continuation: it runs it with an error before
\* going on to next_.
OnCancelDelivers(h, s) ==
    LET c == h.cb[s]
        h1 == [h EXCEPT !.cb[s] = NoCallback, !.storage[s] = NoResult]
        h2 == IF c = NoCallback THEN h1
              ELSE InvokeVariantCallback(h1, [cb |-> c, arg |-> Error("e1")])
    IN IF h2.crashed THEN h2
       ELSE IF h2.next[s] = NULL THEN [h2 EXCEPT !.ret = TRUE]
       ELSE IF h2.life[h2.next[s]] # "live" THEN Crash(h2)
       ELSE Cancel(h2, h2.next[s])

OnCancel(h, s) ==
    LET h1 == [h EXCEPT !.cb[s] = NoCallback, !.storage[s] = NoResult]
    IN IF h1.next[s] = NULL THEN [h1 EXCEPT !.ret = TRUE]
       ELSE IF h1.life[h1.next[s]] # "live" THEN Crash(h1)
       ELSE Cancel(h1, h1.next[s])

\* next->Watch(this): `me` takes a shared_ptr to `other`.
Watch(h, me, other) ==
    [h EXCEPT !.prev[me] = other, !.next[other] = me]

\* An AddCallback that keeps the executor the state has when none is given.
AddCallbackKeepExecutor(h, s, c, e) ==
    TryInvokeCallback([h EXCEPT !.exec[s] = IF e # NoExec THEN e ELSE @,
                                !.cb[s] = c], s)

\* An AddCallback that keeps the continuation the state already holds.
AddCallbackKeepFirst(h, s, c, e) ==
    TryInvokeCallback([h EXCEPT !.exec[s] = e,
                                !.cb[s] = IF @ # NoCallback THEN @ ELSE c],
                      s)

AddCallback(h, s, c, e) ==
    TryInvokeCallback([h EXCEPT !.exec[s] = e, !.cb[s] = c], s)

\* The closure handed to the executor: the callback bound to its argument.
WrapVariantCallback(c, val) == [cb |-> c, arg |-> val]

\* Executor::Post on the loop.
Post(h, task) == [h EXCEPT !.q = Append(@, task)]

\* A TryInvokeCallback that delivers resolutions only and passes over the
\* continuation of a rejected state.
TryInvokeCallbackSkipRejected(h, s) ==
    IF h.cb[s] = NoCallback THEN h
    ELSE IF h.status[s] \notin {"PreResolved", "PreRejected"} THEN h
    ELSE LET c == h.cb[s]
             val == h.storage[s]
             h1 == [h EXCEPT !.cb[s] = NoCallback, !.storage[s] = NoResult]
             h2 == SetStatus(h1, s, IF h.status[s] = "PreResolved"
                                    THEN "Resolved" ELSE "Rejected")
         IN IF h.status[s] = "PreRejected" THEN h2
            ELSE RunInExecutor(h2, s, WrapVariantCallback(c, val))

\* A TryInvokeCallback that copies the stored result to the continuation and
\* leaves it in storage_.
TryInvokeCallbackKeepStorage(h, s) ==
    IF h.cb[s] = NoCallback THEN h
    ELSE IF h.status[s] \notin {"PreResolved", "PreRejected"} THEN h
    ELSE LET c == h.cb[s]
             val == h.storage[s]
             h1 == [h EXCEPT !.cb[s] = NoCallback]
             h2 == SetStatus(h1, s, IF h.status[s] = "PreResolved"
                                    THEN "Resolved" ELSE "Rejected")
         IN RunInExecutor(h2, s, WrapVariantCallback(c, val))

TryInvokeCallback(h, s) ==
    IF h.cb[s] = NoCallback THEN h
    ELSE IF h.status[s] \notin {"PreResolved", "PreRejected"} THEN h
    ELSE LET c == h.cb[s]
             val == h.storage[s]
             h1 == [h EXCEPT !.cb[s] = NoCallback, !.storage[s] = NoResult]
             h2 == SetStatus(h1, s, IF h.status[s] = "PreResolved"
                                    THEN "Resolved" ELSE "Rejected")
         IN RunInExecutor(h2, s, WrapVariantCallback(c, val))

\* A RunInExecutor that never posts.
RunInExecutorInline(h, s, task) == InvokeVariantCallback(h, task)

RunInExecutor(h, s, task) ==
    IF h.exec[s] # NoExec THEN Post(h, task)
    ELSE InvokeVariantCallback(h, task)

InvokeVariantCallback(h, task) ==
    CASE task.cb.kind = "void" -> AttachVoidCb(h, task.cb, task.arg)
      [] task.cb.kind = "result" -> AttachResultCb(h, task.cb, task.arg)
      [] task.cb.kind = "promise" -> AttachPromiseCb(h, task.cb, task.arg)
      [] OTHER -> h

\* A closure that holds its state by a pointer it does not test.
AttachVoidCbNoLock(h, c, r) == UserVoidFn(LogInvoke(h, c.self, r), c, r)

\* The closure Attach (void-returning) installs.
AttachVoidCb(h, c, r) ==
    IF h.life[c.self] # "live" THEN h
    ELSE UserVoidFn(LogInvoke(h, c.self, r), c, r)

\* next_propagator(): the downstream state, or null.
NextPropagator(h, s) == h.next[s]

\* A closure that forwards downstream before the user function is entered.
AttachResultCbForwardFirst(h, c, r) ==
    IF h.life[c.self] # "live" THEN h
    ELSE LET pp == h.next[c.self]
             result == ApplyFn(c.f, r)
             h1 == IF pp = NULL THEN h
                   ELSE IF h.life[pp] # "live" THEN Crash(h)
                   ELSE PropagateResult(h, pp, result)
         IN IF c.user /\ ~h1.crashed THEN LogInvoke(h1, c.self, r) ELSE h1

\* The closure Attach (Result-returning) installs.
AttachResultCb(h, c, r) ==
    IF h.life[c.self] # "live" THEN h
    ELSE LET pp == NextPropagator(h, c.self)
             result == ApplyFn(c.f, r)
             h1 == IF c.user THEN LogInvoke(h, c.self, r) ELSE h
         IN IF pp = NULL THEN h1
            ELSE IF h1.life[pp] # "live" THEN Crash(h1)
            ELSE PropagateResult(h1, pp, result)

\* A fresh Promise<T,E>(exec) in slot s, one handle on it.
MakePromise(h, s, e) ==
    [h EXCEPT !.life[s] = "live", !.status[s] = "Init", !.exec[s] = e,
              !.held[s] = 1]

\* The closure Attach (Promise-returning) installs.  The user function makes
\* the inner promise (slot c.inner), settles it or not, and returns it; the
\* closure's local handle on it dies when the closure returns.
AttachPromiseCb(h, c, r) ==
    IF h.life[c.self] # "live" THEN h
    ELSE LET pp == NextPropagator(h, c.self)
             in == c.inner
             h1 == LogInvoke(h, c.self, r)
             h2 == MakePromise(h1, in, NoExec)
             h3 == IF c.f = "settle" /\ IsValue(r) THEN Resolve(h2, in, r.x)
                   ELSE IF c.f = "settle" /\ IsError(r) THEN Reject(h2, in, r.x)
                   ELSE h2
             h4 == IF pp = NULL THEN h3
                   ELSE IF h3.life[pp] # "live" THEN Crash(h3)
                   ELSE PropagatePromise(h3, pp, in)
         IN [h4 EXCEPT !.held[in] = 0]

\* `auto* r = static_cast<Result<T,E>*>(result); if (r)`: the test is on the
\* pointer, which is the address of a local and never null.
PointerNonNull(result) == TRUE

PropagateResult(h, b, result) ==
    LET h0 == [h EXCEPT !.propagated[b] =
                   [res |-> result, before |-> h.status[b]]]
    IN IF PointerNonNull(result)
       THEN \* r->Value() is *std::get_if<T>(..): a null dereference unless
            \* the Result holds a value
            IF IsValue(result) THEN Resolve(h0, b, result.x)
            ELSE IF h0.ub = "crash" THEN Crash(h0)
            ELSE Resolve(h0, b, h0.ub)
       ELSE Reject(h0, b, result.x)

PropagatePromise(h, b, in) ==
    LET h1 == [Watch(h, b, in) EXCEPT !.mirror[b] = in]
        c == [kind |-> "result", f |-> "id", self |-> in, user |-> FALSE,
              inner |-> NULL]
    IN AddCallback(h1, in, c, NoExec)

\* ------------------------------------------------------------------ lifetime

\* A state is owned by the handles on it, by the downstream states whose
\* prev_ points at it, and by a suspended coroutine frame: promise_ is a
\* handle on the return promise, the awaiter's promise_ one on the awaited.
Owned(h, s) ==
    \/ h.held[s] > 0
    \/ \E d \in States : h.life[d] = "live" /\ h.prev[d] = s
    \/ h.co.st = "suspended" /\ s \in {h.co.ret, h.co.aw}

\* ~PromiseStateBase: BreakPromiseChain, then the members go.
Destroy(h, s) ==
    LET p == h.prev[s]
        h1 == IF p # NULL THEN [h EXCEPT !.next[p] = NULL] ELSE h
    IN [h1 EXCEPT !.life[s] = "dead", !.prev[s] = NULL, !.next[s] = NULL,
                  !.cb[s] = NoCallback, !.storage[s] = NoResult]

\* shared_ptr reference counting: every live state nothing owns is destroyed.
Collect(h) ==
    LET garbage == {s \in States : h.life[s] = "live" /\ ~Owned(h, s)}
    IN IF garbage = {} THEN h
       ELSE Collect(Destroy(h, CHOOSE s \in garbage : TRUE))


\* ------------------------------------------------------------------ Promise

\* A PreferExecutor that never falls back on the promise's own executor.
PreferExecutorArgOnly(h, s, prefer) == prefer

\* Promise::PreferExecutor
PreferExecutor(h, s, prefer) == IF prefer # NoExec THEN prefer ELSE h.exec[s]

FreeSlots == {s \in States : life[s] = "free"}

\* Slots are handed out in order.
FreshSlot(free) == CHOOSE s \in free : \A t \in free : s <= t

\* Promise::Then, void-returning callback: PromiseState::Attach (1).
ThenVoid(h, s, e) ==
    AddCallback(h, s, [kind |-> "void", f |-> "-", self |-> s, user |-> TRUE,
                       inner |-> NULL], e)

\* Promise::Then, Result-returning callback f: next_promise is made in slot
\* b, then PromiseState::Attach (2).
ThenResult(h, s, b, f, e) ==
    LET h1 == MakePromise(h, b, PreferExecutor(h, s, e))
        h2 == Watch([h1 EXCEPT !.origin[b] = s], b, s)
    IN AddCallback(h2, s, [kind |-> "result", f |-> f, self |-> s,
                           user |-> TRUE, inner |-> NULL], e)

\* Promise::Then, Promise-returning callback f: next_promise is made in slot
\* b, then PromiseState::Attach (3).  Slot in is kept for the promise f makes.
ThenPromise(h, s, b, in, f, e) ==
    LET h1 == MakePromise(h, b, PreferExecutor(h, s, e))
        h2 == Watch([h1 EXCEPT !.life[in] = "reserved", !.origin[b] = s], b, s)
    IN AddCallback(h2, s, [kind |-> "promise", f |-> f, self |-> s,
                           user |-> TRUE, inner |-> in], e)

\* ------------------------------------------------------------------ Resolver

\* A Resolve through a pointer that does not test whether the state is alive.
ResolverResolveNoLock(h, s, v) == Resolve(h, s, v)

\* Resolver::Resolve / Reject / Cancel: stat_.lock(), then the state's method.
ResolverResolve(h, s, v) ==
    IF h.life[s] = "live" THEN Resolve(h, s, v) ELSE [h EXCEPT !.ret = FALSE]

ResolverReject(h, s, e) ==
    IF h.life[s] = "live" THEN Reject(h, s, e) ELSE [h EXCEPT !.ret = FALSE]

ResolverCancel(h, s) ==
    IF h.life[s] = "live" THEN Cancel(h, s) ELSE [h EXCEPT !.ret = FALSE]

\* std::optional<PromiseStatus> without a value.
NoStatus == "nullopt"

\* Resolver::GetStatus
ResolverGetStatus(h, s) ==
    IF h.life[s] = "live" THEN h.status[s] ELSE NoStatus

\* ------------------------------------------------------------------ coroutine

\* PromiseState<void,E>::Resolve
ResolveVoid(h, s) ==
    IF h.status[s] # "Init" THEN [h EXCEPT !.ret = FALSE]
    ELSE LET h1 == SetStatus(h, s, "PreResolved")
             h2 == [h1 EXCEPT !.storage[s] = VoidOk, !.outcome[s] = VoidOk]
             h3 == TryInvokeCallback(h2, s)
         IN IF h3.crashed THEN h3
            ELSE [h3 EXCEPT !.ret = TRUE,
                            !.nTrue[s].res = Min(@ + 1, 2)]

\* Resolver<void,E>::Resolve
ResolverResolveVoid(h, s) ==
    IF h.life[s] = "live" THEN ResolveVoid(h, s) ELSE [h EXCEPT !.ret = FALSE]

\* Result<void,E>::IsValue
VoidIsValue(r) == FALSE

\* Promise::IsPending: the state holds a result not yet delivered.
IsPending(h, s) == h.status[s] \in {"PreResolved", "PreRejected"}

\* promise_type::get_return_object: promise_ was made with the frame (state
\* r, no executor); its state takes the coroutine handle, and the caller gets
\* a second handle on it.
get_return_object(h, r) ==
    [MakePromise(h, r, NoExec) EXCEPT !.coh[r] = TRUE, !.co.ret = r]

\* A return_value(Result&&) that resolves whatever the Result holds.
return_value_always_resolve(h, r) == ResolverResolve(h, h.co.ret, r.x)

\* CoroutineTrait<T,E>::promise_type::return_value(Result<_T,_E>&&).
\* r.Error() is *std::get_if<E>(..): a null dereference on an empty Result.
return_value_result(h, r) ==
    IF IsValue(r) THEN ResolverResolve(h, h.co.ret, r.x)
    ELSE IF IsError(r) THEN ResolverReject(h, h.co.ret, r.x)
    ELSE IF h.ub = "crash" THEN Crash(h)
    ELSE ResolverReject(h, h.co.ret, h.ub)

\* CoroutineTrait<void,E>::promise_type::return_value(Result<void,_E>&&)
return_value_void(h, r) ==
    IF ~VoidIsValue(r) THEN ResolverResolveVoid(h, h.co.ret)
    ELSE ResolverReject(h, h.co.ret, r.x)

\* co_return e; through one of the return_value overloads, e being what the
\* body's co_return names, and y what its co_await yielded.
return_value(h, e, y) ==
    CASE e.kind = "T" -> ResolverResolve(h, h.co.ret, e.x.x)
      [] e.kind = "E" -> ResolverReject(h, h.co.ret, e.x.x)
      [] e.kind = "Result" -> return_value_result(h, e.x)
      [] e.kind = "Awaited" -> return_value_result(h, y)
      [] e.kind = "VoidResult" -> return_value_void(h, e.x)
      [] OTHER -> h

\* The rest of the coroutine body once its co_await has yielded y:
\* co_return, then final_suspend (suspend_never), which frees the frame.
FinishBody(h, y) ==
    CHOOSE end \in
        {IF h1.crashed THEN h1 ELSE DestroyFrame(h1, "done") :
             h1 \in {return_value([h EXCEPT !.co.yielded = y],
                                   h.co.body, y)}} : TRUE

\* The body from the value of its co_await on: hr is the heap await_resume
\* left, and res_ in it is what the co_await yields.
AfterAwait(hr) ==
    CHOOSE end \in
        {IF h.crashed THEN h ELSE FinishBody(h, h.co.res) : h \in {hr}} : TRUE

\* An await_ready that always asks for the suspension.
await_ready_never(h, p) == FALSE

\* An await_ready that asks for the suspension only while nothing has
\* settled the promise.
await_ready_unless_init(h, p) == h.status[p] # "Init"

\* PromiseAwaiter::await_ready
await_ready(h, p) == IsPending(h, p)

\* PromiseAwaiter::await_suspend: promise_.Then(lambda, EventLoop::Current())
await_suspend(h, p, cur) ==
    AddCallback(h, p, [kind |-> "void", f |-> "await", self |-> p,
                       user |-> TRUE, inner |-> NULL], cur)

\* PromiseAwaiter::await_resume; what it returns is res_ of the heap it gives.
await_resume(h, p) ==
    IF IsPending(h, p)
    THEN AddCallback(h, p, [kind |-> "void", f |-> "fetch", self |-> p,
                            user |-> TRUE, inner |-> NULL], NoExec)
    ELSE h

\* The lambda of await_resume: res_ = std::move(r).
FetchLambda(h, r) == [h EXCEPT !.co.res = r]

\* handle.resume(): a frame suspended at its co_await goes on after it.  A
\* frame that has been destroyed is freed memory: resuming it is undefined,
\* and where the process survives, code past the co_await has run.
Resume(hs) ==
    CHOOSE end \in
        {IF h.co.st = "suspended"
         THEN AfterAwait(await_resume(
                  [h EXCEPT !.co.resumes = Min(@ + 1, 2)], h.co.aw))
         ELSE IF h.ub = "crash" THEN Crash(h)
         ELSE [h EXCEPT !.co.resumes = Min(@ + 1, 2), !.co.late = TRUE] :
             h \in {hs}} : TRUE

\* The lambda of await_suspend: res_ = std::move(r); handle.resume().  res_
\* is a member of the awaiter, which lives in the frame.
AwaitLambda(h, r) ==
    IF h.co.st = "suspended" THEN Resume([h EXCEPT !.co.res = r])
    ELSE Resume(h)

\* Promise<T,E> f() { [auto r = co_await p;] co_return e; } is called where
\* EventLoop::Current() is cur: the frame is made, the return object is
\* made in state r, and the body runs up to its first suspension
\* (initial_suspend is suspend_never).  p = NULL: the body has no co_await.
Coroutine(h, r, p, e, cur) ==
    LET h1 == get_return_object(
                  [h EXCEPT !.co.body = e, !.co.aw = p, !.co.cur = cur,
                            !.co.pre = IF p = NULL THEN "-" ELSE h.status[p]],
                  r)
    IN IF p = NULL THEN FinishBody(h1, NoResult)
       ELSE IF await_ready(h1, p)
       THEN AfterAwait(await_resume([h1 EXCEPT !.co.inline = TRUE], p))
       ELSE await_suspend([h1 EXCEPT !.co.st = "suspended"], p, cur)

\* ------------------------------------------------------------------ combinators

\* A value-initialised element of Ctx::results / Ctx::errors.
Default == "d0"

\* std::make_shared<Ctx>(std::distance(begin, end)): the counter, and the
\* vector sized to the number of inputs.
MkCtx(c) == [counter |-> c, slots |-> [i \in 1..c |-> Default]]

\* A lambda that holds a rejection back until every input has settled.
MkAllCbRejectWhenAllSettled(h, c, r) ==
    LET h1 == [h EXCEPT !.ctx.slots[c.idx] = r.x, !.ctx.counter = @ - 1]
    IN IF h1.ctx.counter > 0 THEN h1
       ELSE IF IsError(r) THEN ResolverReject(h1, c.out, r.x)
       ELSE ResolverResolve(h1, c.out, h1.ctx.slots)

\* A lambda that stores the values in the order they arrive.
MkAllCbArrivalOrder(h, c, r) ==
    IF IsError(r) THEN ResolverReject(h, c.out, r.x)
    ELSE LET at == Len(h.ctx.slots) - h.ctx.counter + 1
             h1 == [h EXCEPT !.ctx.slots[at] = r.x,
                             !.ctx.counter = @ - 1]
         IN IF h1.ctx.counter > 0 THEN h1
            ELSE ResolverResolve(h1, c.out, h1.ctx.slots)

\* The lambda MkAllPromise attaches to input idx.
MkAllCb(h, c, r) ==
    IF IsError(r) THEN ResolverReject(h, c.out, r.x)
    ELSE LET h1 == [h EXCEPT !.ctx.slots[c.idx] = r.x,
                             !.ctx.counter = @ - 1]
         IN IF h1.ctx.counter > 0 THEN h1
            ELSE ResolverResolve(h1, c.out, h1.ctx.slots)

\* A lambda that stores the errors in the order they arrive.
MkAnyCbArrivalOrder(h, c, r) ==
    IF IsError(r)
    THEN LET at == Len(h.ctx.slots) - h.ctx.counter + 1
             h1 == [h EXCEPT !.ctx.slots[at] = r.x,
                             !.ctx.counter = @ - 1]
         IN IF h1.ctx.counter = 0
            THEN ResolverReject(h1, c.out, h1.ctx.slots)
            ELSE h1
    ELSE ResolverResolve(h, c.out, r.x)

\* A lambda that resolves the output only while no input has been rejected.
MkAnyCbResolveOnlyIfClean(h, c, r) ==
    IF IsError(r)
    THEN LET h1 == [h EXCEPT !.ctx.slots[c.idx] = r.x,
                             !.ctx.counter = @ - 1]
         IN IF h1.ctx.counter = 0
            THEN ResolverReject(h1, c.out, h1.ctx.slots)
            ELSE h1
    ELSE IF h.ctx.counter = Len(h.ctx.slots)
         THEN ResolverResolve(h, c.out, r.x)
         ELSE h

\* The lambda MkAnyPromise attaches to input idx.
MkAnyCb(h, c, r) ==
    IF IsError(r)
    THEN LET h1 == [h EXCEPT !.ctx.slots[c.idx] = r.x,
                             !.ctx.counter = @ - 1]
         IN IF h1.ctx.counter = 0
            THEN ResolverReject(h1, c.out, h1.ctx.slots)
            ELSE h1
    ELSE ResolverResolve(h, c.out, r.x)

\* A lambda that lets only a resolution win the race.
MkRaceCbIgnoreError(h, c, r) ==
    IF IsError(r) THEN h
    ELSE ResolverResolve(h, c.out, r.x)

\* The lambda MkRacePromise attaches to every input.
MkRaceCb(h, c, r) ==
    IF IsError(r) THEN ResolverReject(h, c.out, r.x)
    ELSE ResolverResolve(h, c.out, r.x)

\* The user function a void-returning continuation runs.
UserVoidFn(h, c, r) ==
    CASE c.f = "mkall" -> MkAllCb(h, c, r)
      [] c.f = "mkany" -> MkAnyCb(h, c, r)
      [] c.f = "mkrace" -> MkRaceCb(h, c, r)
      [] c.f = "await" -> AwaitLambda(h, r)
      [] c.f = "fetch" -> FetchLambda(h, r)
      [] OTHER -> h

\* for (it = begin, idx = 0; it != end; ++it, ++idx) it->Then(lambda, exec);
AttachInputs(h, f, ins, idx, out, e) ==
    IF idx > Len(ins) THEN h
    ELSE LET c == [kind |-> "void", f |-> f, self |-> ins[idx],
                   user |-> TRUE, inner |-> NULL, idx |-> idx, out |-> out]
         IN AttachInputs(AddCallback(h, ins[idx], c, e),
                         f, ins, idx + 1, out, e)

\* The call made, remembered with the status each input had at the call.
NoteComb(h, kind, ins, out) ==
    [h EXCEPT !.comb = [kind |-> kind, out |-> out, ins |-> ins,
                        pre |-> [i \in DOMAIN ins |-> h.status[ins[i]]]]]

\* A MkAllPromise without the branch for begin == end.
MkAllPromiseNoEmptyCase(h, ins, out, e) ==
    LET h1 == NoteComb(MakePromise(h, out, NoExec), "all", ins, out)
    IN AttachInputs([h1 EXCEPT !.ctx = MkCtx(Len(ins))],
                    "mkall", ins, 1, out, e)

\* MkAllPromise(begin, end, exec), the output promise made in slot out.
MkAllPromise(h, ins, out, e) ==
    LET h1 == NoteComb(MakePromise(h, out, NoExec), "all", ins, out)
    IN IF ins = <<>> THEN ResolverResolve(h1, out, <<>>)
       ELSE AttachInputs([h1 EXCEPT !.ctx = MkCtx(Len(ins))],
                         "mkall", ins, 1, out, e)

\* MkAnyPromise(begin, end, exec), begin != end.
MkAnyPromise(h, ins, out, e) ==
    LET h1 == NoteComb(MakePromise(h, out, NoExec), "any", ins, out)
    IN AttachInputs([h1 EXCEPT !.ctx = MkCtx(Len(ins))],
                    "mkany", ins, 1, out, e)

\* MkRacePromise(begin, end, exec), begin != end.
MkRacePromise(h, ins, out, e) ==
    LET h1 == NoteComb(MakePromise(h, out, NoExec), "race", ins, out)
    IN AttachInputs(h1, "mkrace", ins, 1, out, e)

\* ------------------------------------------------------------------ actions

Init ==
    /\ status = [s \in States |-> "Init"]
    /\ storage = [s \in States |-> NoResult]
    /\ cb = [s \in States |-> NoCallback]
    /\ exec = [s \in States |-> NoExec]
    /\ next = [s \in States |-> NULL]
    /\ prev = [s \in States |-> NULL]
    /\ held = [s \in States |-> 0]
    /\ life = [s \in States |-> "free"]
    /\ q = <<>>
    /\ crashed = FALSE
    /\ outcome = [s \in States |-> NoResult]
    /\ nTrue = [s \in States |-> [res |-> 0, rej |-> 0, can |-> 0]]
    /\ direct = [s \in States |-> FALSE]
    /\ propagated = [s \in States |-> NoProp]
    /\ mirror = [s \in States |-> NULL]
    /\ invlog = <<>>
    /\ hist = [s \in States |-> <<"Init">>]
    /\ origin = [s \in States |-> NULL]
    /\ ctx = NoCtx
    /\ comb = NoComb
    /\ setlog = <<>>
    /\ coh = [s \in States |-> FALSE]
    /\ co = NoFrame
    /\ el = NewLoop

\* The handler is over: the reference counts settle, and the heap is the
\* program's new state.
Commit(h0) ==
    LET h == IF h0.crashed THEN h0 ELSE Collect(h0)
    IN /\ status' = h.status
       /\ storage' = h.storage
       /\ cb' = h.cb
       /\ exec' = h.exec
       /\ next' = h.next
       /\ prev' = h.prev
       /\ held' = h.held
       /\ life' = h.life
       /\ q' = h.q
       /\ crashed' = h.crashed
       /\ outcome' = h.outcome
       /\ nTrue' = h.nTrue
       /\ direct' = h.direct
       /\ propagated' = h.propagated
       /\ mirror' = h.mirror
       /\ invlog' = h.invlog
       /\ hist' = h.hist
       /\ origin' = h.origin
       /\ ctx' = h.ctx
       /\ comb' = h.comb
       /\ setlog' = h.setlog
       /\ coh' = h.coh
       /\ co' = h.co
       /\ el' = el

\* The states a Resolver may exist for: every promise ever made.
Made == {s \in States : life[s] \in {"live", "dead"}}

\* The states user code holds a Promise handle on.
Handles == {s \in States : life[s] = "live" /\ held[s] > 0}

\* The outcomes of undefined behaviour a handler has to be run under, given
\* its heap hc under "crash": all of them when it met undefined behaviour,
\* and one when it met none (the choice was never consulted, and every
\* choice gives the same heap).
UBChoices(hc) == IF hc.crashed THEN UBOutcomes ELSE {"crash"}

\* Promise<T,E> p(exec);
NewPromise(e) ==
    /\ ~crashed
    /\ FreeSlots # {}
    /\ Cardinality(States \ FreeSlots) < MaxRoots
    /\ Commit(MakePromise(Heap("crash"), FreshSlot(FreeSlots), e))

\* p.Then([](Result<T,E>&&) -> void {...}, e);
DoThenVoid(s, e) ==
    /\ ~crashed
    /\ s \in Handles
    /\ \E ub \in UBChoices(ThenVoid(Heap("crash"), s, e)) :
           Commit(ThenVoid(Heap(ub), s, e))

\* auto b = p.Then([](Result<T,E>&&) -> Result<U,F> {...}, e);
DoThenResult(s, f, e) ==
    /\ ~crashed
    /\ s \in Handles
    /\ FreeSlots # {}
    /\ LET b == FreshSlot(FreeSlots)
       IN \E ub \in UBChoices(ThenResult(Heap("crash"), s, b, f, e)) :
              Commit(ThenResult(Heap(ub), s, b, f, e))

\* auto b = p.Then([](Result<T,E>&&) -> Promise<U,F> {...}, e);
DoThenPromise(s, f, e) ==
    /\ ~crashed
    /\ s \in Handles
    /\ Cardinality(FreeSlots) >= 2
    /\ LET b == FreshSlot(FreeSlots)
           in == FreshSlot(FreeSlots \ {b})
       IN \E ub \in UBChoices(ThenPromise(Heap("crash"), s, b, in, f, e)) :
              Commit(ThenPromise(Heap(ub), s, b, in, f, e))

\* A settlement by user code is remembered as such: the call found the state
\* alive and Init, whether or not it then ran to its return.
MarkDirect(h, s) ==
    LET took == life[s] = "live" /\ status[s] = "Init"
        input == \E i \in DOMAIN comb.ins : comb.ins[i] = s
    IN [h EXCEPT !.direct[s] = @ \/ took,
                 !.setlog = IF took /\ input
                            THEN Append(@, [s |-> s, r |-> h.outcome[s]])
                            ELSE @]

\* resolver.Resolve(v);
DoResolve(s, v) ==
    /\ ~crashed
    /\ s \in Made
    /\ \E ub \in UBChoices(ResolverResolve(Heap("crash"), s, v)) :
           Commit(MarkDirect(ResolverResolve(Heap(ub), s, v), s))

\* resolver.Reject(e);
DoReject(s, e) ==
    /\ ~crashed
    /\ s \in Made
    /\ \E ub \in UBChoices(ResolverReject(Heap("crash"), s, e)) :
           Commit(MarkDirect(ResolverReject(Heap(ub), s, e), s))

\* resolver.Cancel();
DoCancel(s) ==
    /\ ~crashed
    /\ s \in Made
    /\ \E ub \in UBChoices(ResolverCancel(Heap("crash"), s)) :
           Commit(ResolverCancel(Heap(ub), s))

\* A Promise handle of user code goes out of scope.
Drop(s) ==
    /\ ~crashed
    /\ s \in Handles
    /\ Commit([Heap("crash") EXCEPT !.held[s] = @ - 1])

\* The loop runs the task at the head of its queue (RunTasks).
RunTask ==
    /\ ~crashed
    /\ q # <<>>
    /\ \E ub \in UBChoices(InvokeVariantCallback(
                             [Heap("crash") EXCEPT !.q = Tail(q)], Head(q))) :
           Commit(InvokeVariantCallback(
                      [Heap(ub) EXCEPT !.q = Tail(q)], Head(q)))

\* The elements of a set of slots, in ascending order.
Ascending(S) ==
    CHOOSE f \in [1..Cardinality(S) -> S] :
        \A i, j \in 1..Cardinality(S) : i < j => f[i] < f[j]

\* std::vector<Promise<T>> ps(n): one more input promise, without executor.
NewInput ==
    /\ ~crashed
    /\ comb.kind = "none"
    /\ FreeSlots # {}
    /\ Cardinality(Made) < MaxInputs
    /\ Commit(MakePromise(Heap("crash"), FreshSlot(FreeSlots), NoExec))

\* p = MkAllPromise(ps, e); the vector may be empty.
DoMkAll(e) ==
    /\ ~crashed
    /\ comb.kind = "none"
    /\ FreeSlots # {}
    /\ Commit(MkAllPromise(Heap("crash"), Ascending(Handles),
                           FreshSlot(FreeSlots), e))

\* p = MkAnyPromise(ps, e);
DoMkAny(e) ==
    /\ ~crashed
    /\ comb.kind = "none"
    /\ FreeSlots # {}
    /\ Handles # {}
    /\ Commit(MkAnyPromise(Heap("crash"), Ascending(Handles),
                           FreshSlot(FreeSlots), e))

\* p = MkRacePromise(ps, e);
DoMkRace(e) ==
    /\ ~crashed
    /\ comb.kind = "none"
    /\ FreeSlots # {}
    /\ Handles # {}
    /\ Commit(MkRacePromise(Heap("crash"), Ascending(Handles),
                            FreshSlot(FreeSlots), e))

\* auto r = f(); for a coroutine f whose body awaits p (or nothing) and
\* returns e, called where EventLoop::Current() is cur.
DoCoroutine(p, e, cur) ==
    /\ ~crashed
    /\ co.st = "none"
    /\ FreeSlots # {}
    /\ p \in Handles \cup {NULL}
    /\ p = NULL => e.kind # "Awaited"
    /\ LET r == FreshSlot(FreeSlots)
       IN \E ub \in UBChoices(Coroutine(Heap("crash"), r, p, e, cur)) :
              Commit(Coroutine(Heap(ub), r, p, e, cur))

\* The loop's actions leave the promises alone.
LoopStep(l) == el' = l /\ UNCHANGED pvars

\* Room for one more task with this body.
Room(body) == el.n + el.owed + 1 + Len(body) <= MaxTasks

\* el.Post(cb, p) by code running on the loop's thread outside
\* SysTimerCallback (before RunForever, or in a timer or IO callback).
DoPost(p, body) ==
    /\ ~el.crashed
    /\ el.pc = 0
    /\ Room(body)
    /\ \E out \in RaceChoices(el, p) :
           LoopStep(LoopPost([el EXCEPT !.owed = @ + Len(body)], p, "post",
                             body, out))

\* loop->Dispatch(cb, p) by another thread, up to the call of Post: mu_ is
\* taken.
DoDispatch(p, body) ==
    /\ ~el.crashed
    /\ el.disp = NoTask
    /\ Room(body)
    /\ LoopStep([el EXCEPT !.owed = @ + Len(body) + 1,
                           !.disp = [MkTask(el, p, "dispatch", body)
                                         EXCEPT !.id = 0],
                           !.dropped = FALSE])

\* The rest of that Dispatch: the push_back ends, mu_ is released.
DispatchReturn ==
    /\ ~el.crashed
    /\ el.disp # NoTask
    /\ LET task == MkTask(el, el.disp.prio, "dispatch", el.disp.body)
           l1 == [el EXCEPT !.disp = NoTask, !.dropped = FALSE,
                            !.owed = @ - 1, !.n = @ + 1]
       IN LoopStep(IF el.dropped THEN [l1 EXCEPT !.owed = @ - Len(task.body)]
                   ELSE PushBack(l1, task))

\* SysTimerCallback up to RunTasks: sys_timer_iterations_++, and
\* cbs.swap(cbs_[0]) under mu_.
SysTimerCallback ==
    /\ ~el.crashed
    /\ el.pc = 0
    /\ el.iter < MaxTicks
    /\ el.disp = NoTask
    /\ LoopStep([el EXCEPT !.iter = @ + 1, !.batch = el.cbs[0],
                           !.cbs[0] = <<>>, !.pc = 1])

\* RunTasks: the next callback of the vector swapped out.
RunTasks ==
    /\ ~el.crashed
    /\ el.pc # 0
    /\ el.batch # <<>>
    /\ LET task == Head(el.batch)
           l == [el EXCEPT !.batch = Tail(@)]
       IN \E out \in (IF task.body = <<>> THEN {"kept"}
                       ELSE RaceChoices(l, task.body[1])) :
              LoopStep(RunLoopTask(l, task, out))

\* SysTimerCallback after a RunTasks: cbs.clear() and cbs.swap(cbs_[i]) under
\* mu_ for the next i, or the return after the third vector.
SwapNext ==
    /\ ~el.crashed
    /\ el.pc # 0
    /\ el.batch = <<>>
    /\ IF el.pc = 3 THEN LoopStep([el EXCEPT !.pc = 0])
       ELSE /\ el.disp = NoTask
            /\ LoopStep([el EXCEPT !.batch = el.cbs[el.pc],
                                   !.cbs[el.pc] = <<>>, !.pc = @ + 1])

\* ------------------------------------------------------------------ specifications

\* One promise and the promise its Result-returning continuation feeds: every
\* order of Then, Resolve, Reject, Cancel and the loop running a task.
Next ==
    \/ \E e \in Executors : NewPromise(e)
    \/ \E s \in States, e \in Executors : DoThenVoid(s, e)
    \/ \E s \in States, f \in ResultFns, e \in Executors :
          Cardinality(Made) < MaxRoots + MaxDown /\ DoThenResult(s, f, e)
    \/ \E s \in States, v \in Values : DoResolve(s, v)
    \/ \E s \in States, e \in Errors : DoReject(s, e)
    \/ \E s \in States : DoCancel(s)
    \/ \E s \in States : Drop(s)
    \/ RunTask

Spec == Init /\ [][Next]_vars

\* A chain of promises built by Result-returning continuations, as long as
\* the heap allows, and ended by a void-returning continuation on its last
\* promise.
NextChain ==
    \/ \E e \in Executors : NewPromise(e)
    \/ \E s \in States, e \in Executors : DoThenResult(s, "id", e)
    \/ \E s \in States, e \in Executors :
          next[s] = NULL /\ FreeSlots = {} /\ DoThenVoid(s, e)
    \/ \E s \in States : DoResolve(s, "v1")
    \/ \E s \in States : DoReject(s, "e1")
    \/ \E s \in States : DoCancel(s)
    \/ RunTask

SpecChain == Init /\ [][NextChain]_vars

\* A promise whose continuation returns an inner promise (flattening).
NextFlat ==
    \/ \E e \in Executors : NewPromise(e)
    \/ \E s \in States, f \in PromiseFns, e \in Executors : DoThenPromise(s, f, e)
    \/ \E s \in States, v \in Values : DoResolve(s, v)
    \/ \E s \in States, e \in Errors : DoReject(s, e)
    \/ \E s \in States : DoCancel(s)
    \/ \E s \in States : Drop(s)
    \/ RunTask

SpecFlat == Init /\ [][NextFlat]_vars

\* Up to MaxInputs input promises, settled or cancelled by user code before
\* and after one call of MkAllPromise, MkAnyPromise or MkRacePromise on them,
\* and a continuation on the promise the call returned.
NextComb ==
    \/ NewInput
    \/ \E e \in Executors : DoMkAll(e)
    \/ \E e \in Executors : DoMkAny(e)
    \/ \E e \in Executors : DoMkRace(e)
    \/ \E s \in States, v \in Values : s # comb.out /\ DoResolve(s, v)
    \/ \E s \in States, e \in Errors : s # comb.out /\ DoReject(s, e)
    \/ \E s \in States : s # comb.out /\ DoCancel(s)
    \/ \E e \in Executors : comb.out # NULL /\ DoThenVoid(comb.out, e)
    \/ RunTask

SpecComb == Init /\ [][NextComb]_vars

\* One coroutine, which awaits a promise of user code or nothing and then
\* returns; user code settles or cancels the awaited promise, cancels the
\* return promise, attaches a continuation to it and drops its handles, and
\* the loop runs its tasks.
NextCoro ==
    \/ \E e \in Executors : NewPromise(e)
    \/ \E p \in States \cup {NULL}, e \in ReturnExprs, cur \in Executors :
          DoCoroutine(p, e, cur)
    \/ \E s \in States, v \in Values : s # co.ret /\ DoResolve(s, v)
    \/ \E s \in States, e \in Errors : s # co.ret /\ DoReject(s, e)
    \/ \E s \in States : DoCancel(s)
    \/ \E s \in States : Drop(s)
    \/ \E e \in Executors : co.ret # NULL /\ DoThenVoid(co.ret, e)
    \/ RunTask

SpecCoro == Init /\ [][NextCoro]_vars

\* One coroutine that awaits a promise user code has already used: before
\* the call user code attaches a continuation to the promise, settles or
\* cancels it, and the loop delivers; afterwards as in NextCoro.
NextAwait ==
    \/ \E e \in Executors : NewPromise(e)
    \/ \E s \in States, e \in Executors :
          (co.ret = NULL \/ s = co.ret) /\ DoThenVoid(s, e)
    \/ \E p \in States, e \in ReturnExprs, cur \in Executors :
          DoCoroutine(p, e, cur)
    \/ \E s \in States, v \in Values : s # co.ret /\ DoResolve(s, v)
    \/ \E s \in States, e \in Errors : s # co.ret /\ DoReject(s, e)
    \/ \E s \in States : DoCancel(s)
    \/ \E s \in States : Drop(s)
    \/ RunTask

SpecAwait == Init /\ [][NextAwait]_vars

\* The loop and its three task vectors: tasks are posted on the loop's
\* thread and dispatched from another thread, the system timer ticks, and
\* tasks post further tasks while they run.
NextLoop ==
    \/ \E p \in Priority, body \in TaskBodies : DoPost(p, body)
    \/ \E p \in Priority, body \in TaskBodies : DoDispatch(p, body)
    \/ DispatchReturn
    \/ SysTimerCallback
    \/ RunTasks
    \/ SwapNext

SpecLoop == Init /\ [][NextLoop]_vars

\* The same, the loop running for as long as it has tasks.
SpecCoroFair == SpecCoro /\ WF_vars(RunTask)


\* ------------------------------------------------------------------ observations

\* How often the user continuation of s has been entered.
Fired(s) == Cardinality({i \in DOMAIN invlog : invlog[i].s = s})

\* How many tasks delivering to the continuation of s wait in the queue.
QueuedFor(s) == Cardinality({i \in DOMAIN q : q[i].cb.self = s})

\* The arguments the continuation of s was entered with, or will be.
InvokedWith(s) == {invlog[i].r : i \in {j \in DOMAIN invlog : invlog[j].s = s}}
QueuedWith(s) == {q[i].arg : i \in {j \in DOMAIN q : q[j].cb.self = s}}

\* The values the status of s has had that are terminal.
TerminalVisits(s) == {i \in DOMAIN hist[s] : hist[s][i] \in Terminal}

\* ------------------------------------------------------------------ C1

\* C1, as stated: over the life of a state at most one of the calls
\* Resolve, Reject and Cancel on it returns true.
C1_AtMostOneCallTakesEffect ==
    \A s \in States : nTrue[s].res + nTrue[s].rej + nTrue[s].can <= 1

\* C1, amended: at most one Resolve-or-Reject call on a state returns true,
\* at most one Cancel call returns true, and the state enters at most one of
\* the terminal statuses Resolved, Rejected and Cancelled; a Cancel that
\* returned true left the state Cancelled (it may follow a Resolve or Reject
\* that returned true, while the result was still undelivered).
C1_SettlesOnce ==
    \A s \in States :
        /\ nTrue[s].res + nTrue[s].rej <= 1
        /\ nTrue[s].can <= 1
        /\ Cardinality(TerminalVisits(s)) <= 1
        /\ nTrue[s].can = 1 => status[s] = "Cancelled"
        /\ status[s] \in {"Resolved", "Rejected"} =>
               nTrue[s].res + nTrue[s].rej = 1 \/ crashed

\* A Resolve and then a Cancel on one state have both returned true.
C1_Witness ==
    \E s \in States :
        /\ nTrue[s].res = 1
        /\ nTrue[s].can = 1
        /\ hist[s] = <<"Init", "PreResolved", "Cancelled">>

\* ------------------------------------------------------------------ C2

LegalTransitions ==
    {<<"Init", "PreResolved">>, <<"Init", "PreRejected">>,
     <<"PreResolved", "Resolved">>, <<"PreRejected", "Rejected">>,
     <<"Init", "Cancelled">>, <<"PreResolved", "Cancelled">>,
     <<"PreRejected", "Cancelled">>}

\* C2: every assignment to a status is one of Init->PreResolved,
\* Init->PreRejected, PreResolved->Resolved, PreRejected->Rejected and
\* {Init, PreResolved, PreRejected}->Cancelled; nothing leaves Resolved,
\* Rejected or Cancelled.
C2_StatusTransitions ==
    \A s \in States :
        /\ hist[s][1] = "Init"
        /\ hist[s][Len(hist[s])] = status[s]
        /\ \A i \in 1..(Len(hist[s]) - 1) :
               <<hist[s][i], hist[s][i + 1]>> \in LegalTransitions

\* One state went Init, PreResolved, Resolved and another was cancelled with
\* a rejection stored.
C2_Witness ==
    \E s, t \in States :
        /\ hist[s] = <<"Init", "PreResolved", "Resolved">>
        /\ hist[t] = <<"Init", "PreRejected", "Cancelled">>

\* ------------------------------------------------------------------ C3

\* What a call that returned false must leave alone.
SameHeap(h, h0) ==
    /\ h.status = h0.status
    /\ h.storage = h0.storage
    /\ h.cb = h0.cb
    /\ h.exec = h0.exec
    /\ h.next = h0.next
    /\ h.prev = h0.prev
    /\ h.q = h0.q
    /\ h.invlog = h0.invlog

\* C3: in every reachable state, a Resolve or Reject through a Resolver whose
\* state is alive returns true iff the status is Init, and a call that
\* returns false changes no status, stored result, continuation or queue and
\* enters no continuation.
C3_ResolveRejectReturn ==
    \A s \in States : life[s] = "live" =>
        \A ub \in UBOutcomes :
            LET h0 == Heap(ub)
            IN /\ \A v \in Values :
                      LET h == ResolverResolve(h0, s, v)
                      IN ~h.crashed =>
                            /\ h.ret = (status[s] = "Init")
                            /\ ~h.ret => SameHeap(h, h0)
               /\ \A e \in Errors :
                      LET h == ResolverReject(h0, s, e)
                      IN ~h.crashed =>
                            /\ h.ret = (status[s] = "Init")
                            /\ ~h.ret => SameHeap(h, h0)

\* A state that is Init with a continuation attached, where Resolve returns
\* true, beside a settled state, where Reject returns false.
C3_Witness ==
    \E s, t \in States :
        /\ life[s] = "live" /\ status[s] = "Init" /\ cb[s] # NoCallback
        /\ ResolverResolve(Heap("crash"), s, "v1").ret
        /\ life[t] = "live" /\ status[t] = "Resolved"
        /\ ~ResolverReject(Heap("crash"), t, "e1").ret

\* ------------------------------------------------------------------ C4

\* C4: when the Result-returning continuation of A hands PropagateResult a
\* Result for a downstream B that is still Init, B is settled with exactly
\* that Result: resolved with u for Value u, rejected with e for Error e.
C4_ThenResultPropagates ==
    \A b \in States :
        (propagated[b] # NoProp /\ propagated[b].before = "Init"
            /\ mirror[b] = NULL)
        => outcome[b] = propagated[b].res

\* ------------------------------------------------------------------ C5

\* C5: once the inner promise C returned by the continuation has settled and
\* delivered to B (B still Init then), B is settled as C was.
C5_FlattenMirrors ==
    \A b \in States :
        (mirror[b] # NULL /\ propagated[b] # NoProp
            /\ propagated[b].before = "Init"
            /\ status[mirror[b]] \in {"Resolved", "Rejected"})
        => outcome[b] = outcome[mirror[b]]

\* ------------------------------------------------------------------ C6

\* C6: a continuation is only ever entered (or queued to be entered) with
\* the very Result its state was settled with, a Value for a resolution and
\* an Error for a rejection; and every live state that is Resolved or
\* Rejected has had its continuation entered, or queued, with that Result.
C6_ContinuationGetsResult ==
    /\ \A i \in DOMAIN invlog :
           invlog[i].r \in Results /\ invlog[i].r = outcome[invlog[i].s]
    /\ \A i \in DOMAIN q :
           q[i].arg \in Results /\ q[i].arg = outcome[q[i].cb.self]
    /\ \A s \in States :
           (life[s] = "live" /\ status[s] \in {"Resolved", "Rejected"}) =>
               /\ IsValue(outcome[s]) = (status[s] = "Resolved")
               /\ IsError(outcome[s]) = (status[s] = "Rejected")
               /\ outcome[s] \in InvokedWith(s) \cup QueuedWith(s)

\* A continuation has been entered with an Error.
C6_Witness ==
    \E i \in DOMAIN invlog :
        /\ IsError(invlog[i].r)
        /\ status[invlog[i].s] = "Rejected"

\* ------------------------------------------------------------------ C7

\* The states a Cancel of a reaches after a: those along next_, up to the
\* first one that is not cancellable.
RECURSIVE CancelTail(_, _, _)
CancelTail(nx, st, a) ==
    IF nx[a] = NULL \/ st[nx[a]] \notin Cancellable THEN {}
    ELSE {nx[a]} \cup CancelTail(nx, st, nx[a])

\* C7, as stated: for B made by A.Then, a call of A.Cancel() leaves B
\* Cancelled.
C7_CancelAlwaysCancelsDownstream ==
    \A a, b \in States :
        (life[a] = "live" /\ life[b] = "live" /\ origin[b] = a)
        => ResolverCancel(Heap("crash"), a).status[b] = "Cancelled"

\* C7, amended: a Cancel of A while A is Init, PreResolved or PreRejected
\* leaves A and every state along next_ from A, up to the first state that
\* is already Resolved, Rejected or Cancelled, in status Cancelled with no
\* continuation and no stored result; and no continuation of a Cancelled
\* state has fired or is queued to fire.
C7_CancelReachesTail ==
    /\ \A a \in States :
           (life[a] = "live" /\ status[a] \in Cancellable) =>
               LET h == ResolverCancel(Heap("crash"), a)
               IN \A b \in {a} \cup CancelTail(next, status, a) :
                      /\ h.status[b] = "Cancelled"
                      /\ h.cb[b] = NoCallback
                      /\ h.storage[b] = NoResult
    /\ \A b \in States :
           status[b] = "Cancelled" => Fired(b) = 0 /\ QueuedFor(b) = 0

\* A chain of three cancellable states, the middle one with a continuation
\* and the last one with a result stored, where Cancel of the head returns
\* true and reaches the last.
C7_Witness ==
    \E a \in States :
        /\ life[a] = "live" /\ status[a] \in Cancellable
        /\ Cardinality(CancelTail(next, status, a)) = 2
        /\ cb[next[a]] # NoCallback
        /\ status[next[next[a]]] = "PreResolved"
        /\ ResolverCancel(Heap("crash"), a).ret
        /\ ResolverCancel(Heap("crash"), a).status[next[next[a]]] = "Cancelled"

\* ------------------------------------------------------------------ C8

\* C8: the continuation of a Cancelled state has never been entered and is
\* not queued to be entered, whether it was attached before the cancel or by
\* a Then after it.
C8_CancelledNeverFires ==
    \A s \in States :
        status[s] = "Cancelled" => Fired(s) = 0 /\ QueuedFor(s) = 0

\* A state cancelled with a result stored, and a continuation attached to it
\* after the cancel.
C8_Witness ==
    \E s \in States :
        /\ hist[s] = <<"Init", "PreResolved", "Cancelled">>
        /\ cb[s] # NoCallback
        /\ life[s] = "live"

\* ------------------------------------------------------------------ C9

\* C9: in the step that delivers (moves a state to Resolved or Rejected), a
\* state with an executor has its continuation queued as one task and not
\* entered; a state without one has it entered in that step and not queued.
C9_DeliveryFollowsExecutor ==
    [][\A s \in States :
          (status[s] \notin {"Resolved", "Rejected"}
              /\ status'[s] \in {"Resolved", "Rejected"}) =>
              IF exec'[s] # NoExec
              THEN Fired(s)' = Fired(s) /\ QueuedFor(s)' = QueuedFor(s) + 1
              ELSE Fired(s)' = Fired(s) + 1 /\ QueuedFor(s)' = QueuedFor(s)]_vars

\* A delivery queued on the loop beside one made inline.
C9_Witness ==
    \E s, t \in States :
        /\ exec[s] = Loop /\ status[s] \in {"Resolved", "Rejected"}
        /\ QueuedFor(s) = 1 /\ Fired(s) = 0
        /\ exec[t] = NoExec /\ status[t] \in {"Resolved", "Rejected"}
        /\ QueuedFor(t) = 0 /\ Fired(t) = 1

\* ------------------------------------------------------------------ C10

\* C10, as stated: the continuation of a promise B made by A.Then is never
\* entered before the continuation of A.
C10_ChainOrder ==
    \A i \in DOMAIN invlog :
        origin[invlog[i].s] # NULL =>
            \E j \in 1..(i - 1) : invlog[j].s = origin[invlog[i].s]

\* C10, amended: the continuation of a promise B made by A.Then, B not
\* settled by a Resolve or Reject of its own Resolver, is never entered
\* before the continuation of A.
C10_ChainOrderPropagated ==
    \A i \in DOMAIN invlog :
        (origin[invlog[i].s] # NULL /\ ~direct[invlog[i].s]) =>
            \E j \in 1..(i - 1) : invlog[j].s = origin[invlog[i].s]

\* The continuations of a chain of three have run head first, none of the
\* downstream promises settled by user code.
C10_Witness ==
    /\ Len(invlog) = 3
    /\ \A i \in 1..3 : invlog[i].s = i
    /\ origin[2] = 1 /\ origin[3] = 2
    /\ ~direct[2] /\ ~direct[3]

\* ------------------------------------------------------------------ combinator observations

\* s is an input of the combinator call.
InputOf(s) == \E i \in DOMAIN comb.ins : comb.ins[i] = s

\* The entries of the lambdas of the inputs, by what they were entered with.
DeliveredValues ==
    {j \in DOMAIN invlog : InputOf(invlog[j].s) /\ IsValue(invlog[j].r)}
DeliveredErrors ==
    {j \in DOMAIN invlog : InputOf(invlog[j].s) /\ IsError(invlog[j].r)}

\* The least element of a non-empty set of indices.
First(S) == CHOOSE j \in S : \A k \in S : j <= k

\* Input i has settled this way and its lambda has run.
InputResolved(i) ==
    status[comb.ins[i]] = "Resolved" /\ QueuedFor(comb.ins[i]) = 0
InputRejected(i) ==
    status[comb.ins[i]] = "Rejected" /\ QueuedFor(comb.ins[i]) = 0

\* Every input was still Init when the combinator was called.
AllPendingAtCall == \A i \in DOMAIN comb.pre : comb.pre[i] = "Init"

\* The settlements of inputs by user code, by kind.
SettledValues == {j \in DOMAIN setlog : IsValue(setlog[j].r)}
SettledErrors == {j \in DOMAIN setlog : IsError(setlog[j].r)}

\* ------------------------------------------------------------------ C11

\* C11: the output of MkAllPromise over n >= 1 inputs is resolved iff every
\* input has resolved (and its lambda has run), and then with the vector
\* whose i-th element is the value of the i-th input, whatever the order in
\* which the inputs resolved.
C11_MkAllResolves ==
    (comb.kind = "all" /\ comb.ins # <<>>) =>
        LET n == Len(comb.ins)
            all == \A i \in 1..n : InputResolved(i)
        IN /\ IsValue(outcome[comb.out]) <=> all
           /\ status[comb.out] \in {"PreResolved", "Resolved"} <=> all
           /\ all => outcome[comb.out] =
                         Value([i \in 1..n |-> outcome[comb.ins[i]].x])
           /\ \A j \in DeliveredValues :
                  invlog[j].r = outcome[invlog[j].s]

\* MkAllPromise over two inputs that resolved with different values, the
\* second input first.
C11_Witness ==
    /\ comb.kind = "all"
    /\ Len(comb.ins) = 2
    /\ outcome[comb.ins[1]] = Value("v1")
    /\ outcome[comb.ins[2]] = Value("v2")
    /\ Len(invlog) >= 2
    /\ invlog[1].s = comb.ins[2]
    /\ invlog[2].s = comb.ins[1]
    /\ outcome[comb.out] = Value(<<"v1", "v2">>)

\* ------------------------------------------------------------------ C12

\* C12: the output of MkAllPromise is rejected iff the lambda of some input
\* has run with an error, and then with the error of the first such run
\* (for inputs all pending at the call: of the first Reject that user code
\* made); whatever the other inputs do afterwards, the output keeps it.
C12_MkAllRejects ==
    (comb.kind = "all" /\ comb.ins # <<>>) =>
        /\ IsError(outcome[comb.out]) <=> DeliveredErrors # {}
        /\ status[comb.out] \in {"PreRejected", "Rejected"}
               <=> DeliveredErrors # {}
        /\ DeliveredErrors # {} =>
               /\ outcome[comb.out] = invlog[First(DeliveredErrors)].r
               /\ status[comb.out] = "PreRejected" =>
                      storage[comb.out] = outcome[comb.out]
               /\ AllPendingAtCall =>
                      outcome[comb.out] = setlog[First(SettledErrors)].r

\* Both inputs of MkAllPromise were rejected, the second one first, and the
\* output has the error of the second.
C12_Witness ==
    /\ comb.kind = "all"
    /\ Len(comb.ins) = 2
    /\ AllPendingAtCall
    /\ Len(invlog) >= 2
    /\ invlog[1] = [s |-> comb.ins[2], r |-> Error("e2")]
    /\ invlog[2] = [s |-> comb.ins[1], r |-> Error("e1")]
    /\ outcome[comb.out] = Error("e2")

\* ------------------------------------------------------------------ C13

\* C13: the output of MkAnyPromise is resolved iff the lambda of some input
\* has run with a value, and then with the value of the first such run (for
\* inputs all pending at the call: of the first Resolve that user code
\* made), however many inputs were rejected before; whatever the other
\* inputs do afterwards, the output keeps it.
C13_MkAnyResolves ==
    comb.kind = "any" =>
        /\ IsValue(outcome[comb.out]) <=> DeliveredValues # {}
        /\ status[comb.out] \in {"PreResolved", "Resolved"}
               <=> DeliveredValues # {}
        /\ DeliveredValues # {} =>
               /\ outcome[comb.out] = invlog[First(DeliveredValues)].r
               /\ status[comb.out] = "PreResolved" =>
                      storage[comb.out] = outcome[comb.out]
               /\ AllPendingAtCall =>
                      outcome[comb.out] = setlog[First(SettledValues)].r

\* The first input of MkAnyPromise was rejected, then the second resolved,
\* and the output has the value of the second.
C13_Witness ==
    /\ comb.kind = "any"
    /\ Len(comb.ins) = 2
    /\ AllPendingAtCall
    /\ Len(invlog) >= 2
    /\ invlog[1] = [s |-> comb.ins[1], r |-> Error("e1")]
    /\ invlog[2] = [s |-> comb.ins[2], r |-> Value("v2")]
    /\ outcome[comb.out] = Value("v2")

\* ------------------------------------------------------------------ C14

\* C14: the output of MkAnyPromise is rejected iff every input has been
\* rejected (and its lambda has run), and then with the vector whose i-th
\* element is the error of the i-th input, whatever the order in which the
\* inputs were rejected.
C14_MkAnyRejects ==
    comb.kind = "any" =>
        LET n == Len(comb.ins)
            all == \A i \in 1..n : InputRejected(i)
        IN /\ IsError(outcome[comb.out]) <=> all
           /\ status[comb.out] \in {"PreRejected", "Rejected"} <=> all
           /\ all => outcome[comb.out] =
                         Error([i \in 1..n |-> outcome[comb.ins[i]].x])

\* Both inputs of MkAnyPromise were rejected with different errors, the
\* second input first.
C14_Witness ==
    /\ comb.kind = "any"
    /\ Len(comb.ins) = 2
    /\ Len(invlog) >= 2
    /\ invlog[1] = [s |-> comb.ins[2], r |-> Error("e2")]
    /\ invlog[2] = [s |-> comb.ins[1], r |-> Error("e1")]
    /\ outcome[comb.out] = Error(<<"e1", "e2">>)

\* ------------------------------------------------------------------ C15

\* The runs of the lambdas of the inputs, of either kind.
DeliveredInputs == DeliveredValues \cup DeliveredErrors

\* C15: the output of MkRacePromise is settled iff the lambda of some input
\* has run, and then resolved or rejected as, and with the payload of, the
\* first input whose lambda ran (for inputs all pending at the call: the
\* first input user code settled); whatever the other inputs do afterwards,
\* the output keeps it.
C15_MkRaceFirst ==
    comb.kind = "race" =>
        /\ outcome[comb.out] # NoResult <=> DeliveredInputs # {}
        /\ status[comb.out] # "Init" <=> DeliveredInputs # {}
        /\ DeliveredInputs # {} =>
               /\ outcome[comb.out] = invlog[First(DeliveredInputs)].r
               /\ IsValue(outcome[comb.out]) =>
                      status[comb.out] \in {"PreResolved", "Resolved"}
               /\ IsError(outcome[comb.out]) =>
                      status[comb.out] \in {"PreRejected", "Rejected"}
               /\ AllPendingAtCall => outcome[comb.out] = setlog[1].r

\* The second input of MkRacePromise was rejected, then the first resolved,
\* and the output has the error of the second.
C15_Witness ==
    /\ comb.kind = "race"
    /\ Len(comb.ins) = 2
    /\ AllPendingAtCall
    /\ Len(invlog) >= 2
    /\ invlog[1] = [s |-> comb.ins[2], r |-> Error("e2")]
    /\ invlog[2] = [s |-> comb.ins[1], r |-> Value("v1")]
    /\ outcome[comb.out] = Error("e2")

\* ------------------------------------------------------------------ C16

\* C16: the promise MkAllPromise returns for an empty range is resolved with
\* the empty vector from the moment it is returned: the value is stored, or
\* has gone to the continuation attached since, and nothing is waited for.
C16_MkAllEmpty ==
    (comb.kind = "all" /\ comb.ins = <<>>) =>
        /\ outcome[comb.out] = Value(<<>>)
        /\ status[comb.out] \in {"PreResolved", "Resolved"}
        /\ status[comb.out] = "PreResolved" =>
               storage[comb.out] = Value(<<>>)
        /\ status[comb.out] = "Resolved" =>
               Value(<<>>) \in InvokedWith(comb.out) \cup QueuedWith(comb.out)
        /\ ctx = NoCtx

\* MkAllPromise has just returned for an empty range.
C16_Witness ==
    /\ comb.kind = "all"
    /\ comb.ins = <<>>
    /\ status[comb.out] = "PreResolved"
    /\ storage[comb.out] = Value(<<>>)
    /\ invlog = <<>>
    /\ q = <<>>

\* ------------------------------------------------------------------ C17

\* C17: a state that no Promise handle and no downstream prev_ owns is
\* destroyed, whatever Resolvers exist for it; and through the Resolver of a
\* destroyed state Resolve, Reject and Cancel return false and change
\* nothing anywhere, and GetStatus returns no value.
C17_ResolverIsWeak ==
    \A s \in Made :
        /\ ~Owned(Heap("crash"), s) => life[s] = "dead"
        /\ life[s] = "dead" =>
               /\ \A v \in Values :
                      ResolverResolve(Heap("crash"), s, v) = Heap("crash")
               /\ \A e \in Errors :
                      ResolverReject(Heap("crash"), s, e) = Heap("crash")
               /\ ResolverCancel(Heap("crash"), s) = Heap("crash")
               /\ ResolverGetStatus(Heap("crash"), s) = NoStatus

\* A state destroyed while still Init, beside a live one: Resolve through
\* the Resolver of the destroyed one returns false.
C17_Witness ==
    \E s, t \in States :
        /\ life[s] = "dead"
        /\ status[s] = "Init"
        /\ life[t] = "live"
        /\ ~ResolverResolve(Heap("crash"), s, "v1").ret

\* ------------------------------------------------------------------ C18

\* C18: in every reachable state, Cancel through a Resolver returns true iff
\* the state is alive and its status is Init, PreResolved or PreRejected,
\* whatever the status of the states downstream of it.
C18_CancelReturn ==
    \A s \in Made :
        LET h == ResolverCancel(Heap("crash"), s)
        IN ~h.crashed =>
               h.ret = (life[s] = "live" /\ status[s] \in Cancellable)

\* ------------------------------------------------------------------ C19

\* C19: in every reachable state where B is linked to the inner promise C
\* its upstream's continuation returned, both alive and still cancellable, a
\* Cancel of B leaves C Cancelled.
C19_CancelReachesInner ==
    \A b \in States :
        (mirror[b] # NULL /\ life[b] = "live" /\ life[mirror[b]] = "live"
            /\ status[b] \in Cancellable
            /\ status[mirror[b]] \in Cancellable)
        => ResolverCancel(Heap("crash"), b).status[mirror[b]] = "Cancelled"

\* ------------------------------------------------------------------ C20

\* C20: in every reachable state a Cancel of a state B changes the status,
\* stored result and continuation of no state but B and those downstream of
\* it along next_, so not those of its upstream A; and a Cancelled state
\* stays Cancelled and unfired in every later step, the settlement of its
\* upstream included.
C20_CancelForwardOnly ==
    /\ [](\A b \in States : life[b] = "live" =>
             LET h == ResolverCancel(Heap("crash"), b)
             IN \A a \in States \ ({b} \cup CancelTail(next, status, b)) :
                    /\ h.status[a] = status[a]
                    /\ h.storage[a] = storage[a]
                    /\ h.cb[a] = cb[a])
    /\ [][\A b \in States :
             status[b] = "Cancelled" =>
                 status'[b] = "Cancelled" /\ Fired(b)' = Fired(b)]_vars

\* B was cancelled while its upstream A was pending; A was then resolved,
\* its continuation ran and handed B a Result, and B is still Cancelled.
C20_Witness ==
    \E a, b \in States :
        /\ origin[b] = a
        /\ hist[b] = <<"Init", "Cancelled">>
        /\ nTrue[a].can = 0
        /\ status[a] = "Resolved"
        /\ Fired(a) = 1
        /\ propagated[b].before = "Cancelled"


\* ------------------------------------------------------------------ coroutine observations

\* What the body's co_return named: the Result its co_await yielded, or the
\* T, E or Result written in the body.
Returned == IF co.body.kind = "Awaited" THEN co.yielded ELSE co.body.x

\* The coroutine has been resumed from its co_await and has run to its end.
ResumedToEnd == co.resumes = 1 /\ co.st = "done"

\* The coroutine is suspended and the promise it awaits has been settled and
\* has handed the continuation to its executor.
SuspendedOnSettled ==
    IF co.st = "suspended" THEN status[co.aw] \in {"Resolved", "Rejected"}
    ELSE FALSE

\* The return promise of the coroutine is Cancelled.
ReturnCancelled ==
    IF co.ret = NULL THEN FALSE ELSE status[co.ret] = "Cancelled"

\* ------------------------------------------------------------------ C21

\* C21: a coroutine whose awaited promise was PreResolved or PreRejected when
\* the co_await began is never suspended and never resumed: the call that
\* started it ran it to its end, the co_await yielded the Result the awaited
\* state had stored, and that state went on to Resolved or Rejected.
C21_ReadyAwaitIsInline ==
    co.pre \in {"PreResolved", "PreRejected"} =>
        /\ co.st = "done"
        /\ co.inline
        /\ co.resumes = 0
        /\ co.yielded = outcome[co.aw]
        /\ co.yielded \in Results
        /\ hist[co.aw][Len(hist[co.aw])] =
               (IF co.pre = "PreResolved" THEN "Resolved" ELSE "Rejected")
        /\ ~crashed => hist[co.ret] # <<"Init">>

\* A coroutine awaited a PreRejected promise, got its error inline and has
\* returned it.
C21_Witness ==
    /\ co.pre = "PreRejected"
    /\ co.st = "done"
    /\ co.body.kind = "Awaited"
    /\ IsError(co.yielded)
    /\ outcome[co.ret] = co.yielded

\* ------------------------------------------------------------------ C22

\* C22: a coroutine suspended on a promise P that is then resolved or
\* rejected is resumed at most once, by a task of the loop it was suspended
\* on; once resumed its co_await has yielded P's Result and its return
\* promise is settled with what its co_return named; and, the loop running
\* its tasks, this happens unless the return promise is cancelled first.
C22_ResumedOnceAndSettles ==
    /\ [](co.resumes <= 1)
    /\ [](ResumedToEnd =>
            /\ co.yielded = outcome[co.aw]
            /\ outcome[co.ret] = Returned)
    /\ [][co'.resumes > co.resumes /\ co.cur = Loop =>
            q # <<>> /\ Head(q).cb.f = "await"]_vars
    /\ SuspendedOnSettled
           ~> (ResumedToEnd \/ ReturnCancelled \/ crashed)

\* ------------------------------------------------------------------ C23

\* C23: a coroutine whose frame Cancel destroyed while it was suspended at
\* its co_await is never resumed, whatever happens to the awaited promise
\* afterwards.
C23_NoResumeAfterCancel ==
    co.st = "destroyed" => co.resumes = 0

\* ------------------------------------------------------------------ C24

\* C24: the frame of a coroutine is destroyed at most once, whatever the
\* order of its running to its end and of Cancel on its return promise.
C24_FrameDestroyedOnce ==
    co.destroys <= 1 /\ ~co.stale

\* ------------------------------------------------------------------ C25

\* C25: once a coroutine returning Promise<T,E>, T not void, has run its
\* co_return, its return promise was resolved with the value when the
\* operand was a T or a Result holding a value, and rejected with the error
\* when it was an E or a Result holding an error.
C25_ReturnValueDispatch ==
    co.st = "done" /\ co.body.kind \in {"T", "E", "Result", "Awaited"} =>
        /\ outcome[co.ret] = Returned
        /\ IsValue(Returned) =>
               /\ nTrue[co.ret].res = 1 /\ nTrue[co.ret].rej = 0
               /\ hist[co.ret][2] = "PreResolved"
        /\ IsError(Returned) =>
               /\ nTrue[co.ret].rej = 1 /\ nTrue[co.ret].res = 0
               /\ hist[co.ret][2] = "PreRejected"

\* A coroutine has returned a Result holding an error, and one has returned
\* the error its co_await yielded after a resume: the return promise is
\* rejected with it.
C25_Witness ==
    /\ co.st = "done"
    /\ \/ co.body.kind = "Result" /\ co.body.x = Error("e2")
       \/ co.body.kind = "Awaited" /\ co.resumes = 1 /\ IsError(co.yielded)
    /\ IsError(outcome[co.ret])
    /\ outcome[co.ret] = Returned
    /\ hist[co.ret][2] = "PreRejected"

\* ------------------------------------------------------------------ C26

\* C26: once a coroutine returning Promise<void,E> has run co_return on a
\* Result<void,E>, its return promise was resolved when the Result was Ok and
\* rejected with the error when the Result carried one.
C26_VoidReturnDispatch ==
    co.st = "done" /\ co.body.kind = "VoidResult" =>
        /\ outcome[co.ret] = co.body.x
        /\ hist[co.ret][2] =
               (IF IsError(co.body.x) THEN "PreRejected" ELSE "PreResolved")


\* ------------------------------------------------------------------ C27

\* A live state has an owner: a handle, or a live downstream state whose
\* prev_ points at it.
NoGarbage ==
    \A s \in States :
        life[s] = "live" =>
            held[s] > 0 \/ \E d \in States : life[d] = "live" /\ prev[d] = s

\* The upstream of a live state is alive.
UpstreamAlive ==
    \A d \in States :
        life[d] = "live" /\ prev[d] # NULL => life[prev[d]] = "live"

\* C27, as stated: a live downstream keeps its upstream alive, a state with
\* no owner left is released, and a state with a pending continuation
\* (attached, or handed to the executor and not yet run) stays alive.
C27_PendingContinuationKeepsAlive ==
    /\ [](~crashed => UpstreamAlive /\ NoGarbage)
    /\ [](\A s \in States : QueuedFor(s) > 0 => life[s] = "live")
    /\ [][\A s \in States :
            life[s] = "live" /\ cb[s] # NoCallback => life'[s] = "live"]_vars

\* C27, amended: a live downstream keeps its upstream alive and a state with
\* no owner left is released, whether or not a continuation is attached to
\* it or a task for it waits in the loop: continuations hold their state
\* weakly, and the continuation of a state that has died is never entered.
C27_HandlesKeepAlive ==
    /\ [](~crashed => UpstreamAlive /\ NoGarbage)
    /\ [][\A s \in States :
            life[s] = "dead" => Fired(s)' = Fired(s)]_vars

\* An upstream and its downstream have both been released after the last
\* handles on them were dropped, while the task delivering to the upstream's
\* continuation still waits in the loop.
C27_Witness ==
    \E a, b \in States :
        /\ origin[b] = a
        /\ life[a] = "dead" /\ life[b] = "dead"
        /\ QueuedFor(a) > 0
        /\ Fired(a) = 0


\* ------------------------------------------------------------------ C28

\* The executor Then has to give the downstream promise when it is called
\* on s with executor argument e.
ExpectedExecutor(s, e) == IF e # NoExec THEN e ELSE exec[s]

\* State b was made by the Then that attached the continuation its upstream
\* holds (next_ of the upstream is b), and nothing has been attached to b or
\* has settled it since: the upstream's exec_ is still the argument of that
\* Then.
FreshDownstream(b) ==
    /\ life[b] = "live"
    /\ origin[b] # NULL
    /\ life[origin[b]] = "live"
    /\ next[origin[b]] = b
    /\ cb[origin[b]].kind \in {"result", "promise"}
    /\ cb[b] = NoCallback
    /\ hist[b] = <<"Init">>

\* C28: in every reachable state, a Then with a Result-returning or a
\* Promise-returning continuation called on a promise A with executor
\* argument exec returns a promise whose executor is exec when exec is not
\* null, and the executor A has at the call when it is; and a downstream
\* whose upstream's Then was given an executor has that executor.
C28_DownstreamExecutor ==
    /\ \A s \in Handles, e \in Executors :
           /\ FreeSlots # {} =>
                  LET b == FreshSlot(FreeSlots)
                  IN \A f \in ResultFns :
                         ThenResult(Heap("crash"), s, b, f, e).exec[b] =
                             ExpectedExecutor(s, e)
           /\ Cardinality(FreeSlots) >= 2 =>
                  LET b == FreshSlot(FreeSlots)
                      in == FreshSlot(FreeSlots \ {b})
                  IN \A f \in PromiseFns :
                         ThenPromise(Heap("crash"), s, b, in, f, e).exec[b] =
                             ExpectedExecutor(s, e)
    /\ \A b \in States :
           FreshDownstream(b) /\ exec[origin[b]] # NoExec =>
               exec[b] = exec[origin[b]]

\* A promise made with the loop as executor was given a continuation without
\* an executor: the downstream has the loop, and the upstream's executor is
\* now null.
C28_Witness ==
    \E b \in States :
        /\ FreshDownstream(b)
        /\ exec[origin[b]] = NoExec
        /\ exec[b] = Loop


\* ------------------------------------------------------------------ C29

\* C29: a task queued with High priority before a tick starts is run, in
\* that tick, before every Medium and every Low task the tick runs.
C29_HighFirst ==
    \A i, j \in DOMAIN el.ran :
        /\ el.ran[i].iter = el.ran[j].iter
        /\ el.ran[i].prio = kHigh
        /\ el.ran[i].at < el.ran[i].iter
        /\ el.ran[j].prio \in {kMedium, kLow}
        => i < j

\* ------------------------------------------------------------------ C30

\* C30: no task is run twice, and of two tasks of the same priority that
\* were run, the one enqueued first was run first, whichever of Post and
\* Dispatch enqueued them, in whichever tick they ran, and whether user code
\* or a running task enqueued them.
C30_FifoWithinBand ==
    \A i, j \in DOMAIN el.ran :
        i < j =>
            /\ el.ran[i].id # el.ran[j].id
            /\ el.ran[i].prio = el.ran[j].prio => el.ran[i].id < el.ran[j].id

\* Three tasks of one priority have run in the order they were enqueued in:
\* one dispatched from another thread, one posted, and one posted by a task
\* while it ran, which a later tick has run.
C30_Witness ==
    \E i, j, k \in DOMAIN el.ran :
        /\ i < j /\ j < k
        /\ el.ran[i].prio = el.ran[j].prio /\ el.ran[j].prio = el.ran[k].prio
        /\ {el.ran[i].by, el.ran[j].by} = {"dispatch", "post"}
        /\ el.ran[k].by = "task"
        /\ el.ran[k].iter > el.ran[j].iter


\* ------------------------------------------------------------------ C31

\* C31: the loop's thread never touches a task vector while another thread
\* is inside Dispatch's push_back on the same vector: no Post of the loop's
\* thread has run into a Dispatch.
C31_NoUnlockedAccess == ~el.raced


\* ------------------------------------------------------------------ C32

\* The state has been through status x.
Visited(s, x) == \E i \in DOMAIN hist[s] : hist[s][i] = x

\* C32: between operations, a live state holds a stored result if and only
\* if its status is PreResolved or PreRejected.
C32_StorageIffPending ==
    ~crashed =>
        \A s \in States : life[s] = "live" =>
            (storage[s] # NoResult
                <=> status[s] \in {"PreResolved", "PreRejected"})

\* A state holds a result while it is pending, another has given its result
\* to its continuation, and a third lost its result to a Cancel.
C32_Witness ==
    /\ ~crashed
    /\ \E s \in States :
           /\ life[s] = "live" /\ status[s] = "Cancelled"
           /\ Visited(s, "PreResolved") /\ storage[s] = NoResult
    /\ \E s \in States :
           /\ life[s] = "live" /\ status[s] \in {"Resolved", "Rejected"}
           /\ storage[s] = NoResult


\* ------------------------------------------------------------------ C33

\* C33: a live state that holds a continuation is in Init, PreResolved or
\* PreRejected: no Resolved, Rejected or Cancelled state holds one.
C33_ContinuationOnlyWhilePending ==
    ~crashed =>
        \A s \in States : life[s] = "live" /\ cb[s] # NoCallback =>
            status[s] \in {"Init", "PreResolved", "PreRejected"}

\* ------------------------------------------------------------------ C34

\* C34: the downstream a live state points at points back at it with prev_.
C34_NextPrevAgree ==
    ~crashed =>
        \A s \in States : life[s] = "live" /\ next[s] # NULL =>
            prev[next[s]] = s

\* ------------------------------------------------------------------ C35

\* The state has had a continuation installed: it holds one, or one of its
\* own was queued or invoked.
HadContinuation(s) ==
    cb[s] # NoCallback \/ Fired(s) > 0 \/ QueuedFor(s) > 0

\* C35: no step installs a continuation on a state that has had one: the
\* continuation of such a state stays the one it is, or is cleared.
C35_OneContinuationForLife ==
    [][\A s \in States : life[s] = "live" /\ HadContinuation(s) =>
           cb'[s] \in {cb[s], NoCallback}]_vars


\* ------------------------------------------------------------------ C36

\* Heap h2 is heap h1 after one more inline invocation of the continuation
\* of s, and nothing more posted.
InvokedInline(h1, h2, s) ==
    /\ ~h2.crashed
    /\ h2.q = h1.q
    /\ Len(h2.invlog) = Len(h1.invlog) + 1
    /\ h2.invlog[Len(h2.invlog)].s = s

\* C36: in every reachable state of a running program, a Then on a promise leaves the state's
\* executor equal to the executor argument, null included; and on an Init
\* state whose executor is not null, a Then without an executor followed by
\* Resolve or Reject invokes the continuation inside the call and posts
\* nothing.
C36_ThenSetsExecutor ==
    ~crashed => \A s \in Handles :
        /\ \A e \in Executors :
               /\ ThenVoid(Heap("crash"), s, e).exec[s] = e
               /\ FreeSlots # {} =>
                      \A f \in ResultFns :
                          ThenResult(Heap("crash"), s, FreshSlot(FreeSlots),
                                     f, e).exec[s] = e
        /\ status[s] = "Init" /\ exec[s] # NoExec =>
               LET h1 == ThenVoid(Heap("crash"), s, NoExec)
               IN /\ \A v \in Values :
                         InvokedInline(h1, Resolve(h1, s, v), s)
                  /\ \A e \in Errors :
                         InvokedInline(h1, Reject(h1, s, e), s)

\* A state whose executor was the loop got its continuation by a Then
\* without an executor: the downstream inherited the loop, the state's own
\* executor is null, and its settlement ran the continuation inside the
\* call, which settled the downstream, with nothing posted.
C36_Witness ==
    \E b \in States :
        /\ origin[b] # NULL
        /\ life[b] = "live" /\ life[origin[b]] = "live"
        /\ exec[b] = Loop /\ exec[origin[b]] = NoExec
        /\ status[origin[b]] \in {"Resolved", "Rejected"}
        /\ cb[origin[b]] = NoCallback
        /\ Fired(origin[b]) = 1
        /\ status[b] \in {"PreResolved", "PreRejected"} /\ ~direct[b]
        /\ q = <<>>


\* ------------------------------------------------------------------ C37

\* Heap h2 is heap h1 after the one delivery of continuation c of state s,
\* and of nothing else: c was posted with the executor, or invoked inside
\* the call without one, and s holds no continuation any more.
DeliveredOnly(h1, h2, s, c) ==
    /\ h2.cb[s] = NoCallback
    /\ Len(h2.q) + Len(h2.invlog) = Len(h1.q) + Len(h1.invlog) + 1
    /\ IF h1.exec[s] # NoExec
       THEN /\ Len(h2.q) = Len(h1.q) + 1
            /\ h2.q[Len(h2.q)].cb = c
       ELSE /\ Len(h2.invlog) = Len(h1.invlog) + 1
            /\ h2.invlog[Len(h2.invlog)].s = s

\* C37: in every reachable state of a running program, two Thens in a row on
\* an Init state leave the second continuation in the state, and the
\* settlement that follows delivers the second one, once, and nothing else:
\* a downstream made by the first Then is not propagated to, and one made by
\* the second Then is when the delivery is inline.
C37_SecondThenReplaces ==
    ~crashed =>
        \A s \in Handles : status[s] = "Init" /\ FreeSlots # {} =>
            \A f \in ResultFns, e1 \in Executors, e2 \in Executors,
               v \in Values :
                LET b == FreshSlot(FreeSlots)
                    hv == ThenVoid(ThenResult(Heap("crash"), s, b, f, e1),
                                   s, e2)
                    hr == ThenResult(ThenVoid(Heap("crash"), s, e1),
                                     s, b, f, e2)
                    dv == Resolve(hv, s, v)
                    dr == Resolve(hr, s, v)
                IN /\ hv.cb[s].kind = "void" /\ hr.cb[s].kind = "result"
                   /\ hr.cb[s].f = f
                   /\ DeliveredOnly(hv, dv, s, hv.cb[s])
                   /\ DeliveredOnly(hr, dr, s, hr.cb[s])
                   /\ dv.status[b] = "Init" /\ dv.propagated[b] = NoProp
                   /\ e2 = NoExec => dr.propagated[b] # NoProp

\* A state got a Result-returning continuation and then a void-returning
\* one, and was settled: it delivered once, its continuation ran once, and
\* the downstream of the first Then was never propagated to.
C37_Witness ==
    \E b \in States :
        /\ origin[b] # NULL
        /\ life[b] = "live" /\ life[origin[b]] = "live"
        /\ status[origin[b]] \in {"Resolved", "Rejected"}
        /\ cb[origin[b]] = NoCallback
        /\ Fired(origin[b]) = 1 /\ QueuedFor(origin[b]) = 0
        /\ status[b] = "Init" /\ propagated[b] = NoProp /\ ~direct[b]


\* ------------------------------------------------------------------ C38

\* State s has delivered, and its continuation waits in the executor.
DeliveryPosted(s) ==
    /\ life[s] = "live"
    /\ status[s] \in {"Resolved", "Rejected"}
    /\ QueuedFor(s) > 0

\* C38: in every reachable state of a running program, a Cancel on a state
\* that has delivered and whose continuation is still queued returns false
\* and changes no status, stored result, continuation, link or queue; and
\* when the continuation is the next task, running it after that Cancel
\* enters the continuation of the state.
C38_CancelAfterPost ==
    ~crashed =>
        \A s \in States : DeliveryPosted(s) =>
            LET h == ResolverCancel(Heap("crash"), s)
                run == InvokeVariantCallback([h EXCEPT !.q = Tail(h.q)],
                                             Head(h.q))
            IN /\ ~h.ret
               /\ ~h.crashed
               /\ SameHeap(h, Heap("crash"))
               /\ Head(q).cb.self = s =>
                      /\ Len(run.invlog) > Len(invlog)
                      /\ run.invlog[Len(invlog) + 1].s = s

\* The continuation of a settled state is the next task of the loop, and
\* the state has a live downstream that is still Init.
C38_Witness ==
    /\ ~crashed
    /\ \E s \in States :
           /\ DeliveryPosted(s)
           /\ Head(q).cb.self = s
           /\ next[s] # NULL
           /\ life[next[s]] = "live"
           /\ status[next[s]] = "Init"


\* ------------------------------------------------------------------ C39

\* Some input of the combinator is Cancelled and no input is Rejected.
CancelledAmongResolved ==
    /\ \E i \in DOMAIN comb.ins : status[comb.ins[i]] = "Cancelled"
    /\ \A i \in DOMAIN comb.ins : status[comb.ins[i]] # "Rejected"

\* C39: the lambda of a Cancelled input of MkAllPromise never runs; while
\* some input is Cancelled and none is Rejected the output is Init, whatever
\* the other inputs have done; and a Cancelled input stays Cancelled, so the
\* output stays Init from then on.
C39_MkAllIgnoresCancel ==
    /\ [](comb.kind = "all" =>
             /\ \A i \in DOMAIN comb.ins :
                    status[comb.ins[i]] = "Cancelled" =>
                        Fired(comb.ins[i]) = 0 /\ QueuedFor(comb.ins[i]) = 0
             /\ CancelledAmongResolved =>
                    /\ status[comb.out] = "Init"
                    /\ outcome[comb.out] = NoResult
                    /\ ctx.counter > 0)
    /\ [][\A s \in States :
              status[s] = "Cancelled" => status'[s] = "Cancelled"]_vars

\* MkAllPromise over two inputs: one was cancelled, the other resolved and
\* its lambda ran, and the output is Init.
C39_Witness ==
    /\ comb.kind = "all"
    /\ Len(comb.ins) = 2
    /\ \E i, j \in DOMAIN comb.ins :
           /\ status[comb.ins[i]] = "Cancelled"
           /\ InputResolved(j)
           /\ Fired(comb.ins[j]) = 1
    /\ status[comb.out] = "Init"


\* ------------------------------------------------------------------ C40

\* The promise the coroutine awaits was Resolved, Rejected or Cancelled when
\* the co_await began, or was Init then and has been cancelled since.
AwaitsDeadPromise ==
    IF co.aw = NULL THEN FALSE
    ELSE \/ co.pre \in Terminal
         \/ co.pre = "Init" /\ status[co.aw] = "Cancelled"

\* C40: a coroutine whose awaited promise was terminal when the co_await
\* began, or was cancelled while awaited, was suspended and has never been
\* resumed; its frame is suspended still unless a Cancel of the return
\* promise destroyed it; and the return promise is Init unless it was
\* cancelled.
C40_NeverResumed ==
    AwaitsDeadPromise =>
        /\ ~crashed
        /\ ~co.inline
        /\ co.resumes = 0 /\ ~co.late
        /\ co.yielded = NoResult
        /\ co.st \in {"suspended", "destroyed"}
        /\ co.st = "suspended" <=> status[co.ret] = "Init"
        /\ co.st = "destroyed" <=>
               status[co.ret] = "Cancelled" /\ nTrue[co.ret].can = 1
        /\ outcome[co.ret] = NoResult

\* The awaited promise had delivered to an earlier continuation when the
\* co_await began; that continuation has run, the loop has nothing left to
\* do, and the coroutine is suspended with its return promise Init.
C40_Witness ==
    /\ AwaitsDeadPromise
    /\ co.pre \in {"Resolved", "Rejected"}
    /\ Fired(co.aw) = 1
    /\ q = <<>>
    /\ co.st = "suspended"
    /\ cb[co.aw].f = "await"
    /\ status[co.ret] = "Init"

=============================================================================
